---- MODULE Spec2Model ----
(***************************************************************************)
(* A model of the quiz-api repository.  The repository holds several       *)
(* successive prototypes of one Express server that share one Supabase     *)
(* database (tables quizzes, questions, quiz_sources, attempts,            *)
(* attempt_answers).  The prototypes are named after the file and the      *)
(* order in which they appear:                                             *)
(*   p0a  src/unnamed/part_000 lines    1-637                              *)
(*   p0b  src/unnamed/part_000 lines  639-1440 (the one with attempts)     *)
(*   p2a  src/unnamed/part_002 lines    1-138                              *)
(*   p2b  src/unnamed/part_002 lines  140-689                              *)
(*   p3   src/unnamed/part_003                                             *)
(*   s1   src/server.js        lines    1-581                              *)
(*   s3   src/server.js        lines 1039-1266 (no database)               *)
(* Every handler is split at its awaits (model call, store read, store     *)
(* write): the code between two awaits runs atomically on the event loop.  *)
(* Strings are sequences of one-character strings, so that trimming and    *)
(* lower-casing are computed.  A missing JSON field and an empty string    *)
(* (or empty array) are the same value: every prototype reads fields with  *)
(* `x || ""`, safeStr or a falsy test.  The explanation and title fields   *)
(* never influence control flow and are left out of the rows.              *)
(***************************************************************************)
EXTENDS Integers, Sequences, FiniteSets, TLC

\* ---------------------------------------------------------------- bounds
MaxQuizzes == 2
MaxN == 2
MaxAttempts == 2
MaxFinishes == 2

\* --------------------------------------------------------------- strings
None == <<>>

Some(x) == <<x>>

Min(a, b) == IF a < b THEN a ELSE b

ToLowerChar(c) ==
  CASE c = "A" -> "a"
    [] c = "B" -> "b"
    [] c = "C" -> "c"
    [] c = "D" -> "d"
    [] c = "Q" -> "q"
    [] c = "E" -> "e"
    [] c = "N" -> "n"
    [] c = "R" -> "r"
    [] OTHER -> c

toLowerCase(s) == [i \in 1..Len(s) |-> ToLowerChar(s[i])]

RECURSIVE trimStart(_)
trimStart(s) == IF s # <<>> /\ Head(s) = " " THEN trimStart(Tail(s)) ELSE s

RECURSIVE trimEnd(_)
trimEnd(s) ==
  IF s # <<>> /\ s[Len(s)] = " " THEN trimEnd(SubSeq(s, 1, Len(s) - 1)) ELSE s

trim(s) == trimEnd(trimStart(s))

safeStr(s) == trim(s)

includes(arr, x) == \E i \in 1..Len(arr) : arr[i] = x

SetOf(arr) == {arr[i] : i \in 1..Len(arr)}

slice(arr, k) == SubSeq(arr, 1, Min(k, Len(arr)))

sA == <<"A">>
sa == <<"a">>
sAsp == <<"A", " ">>
sB == <<"B">>
sC == <<"C">>
sD == <<"D">>
sQ1 == <<"Q", "1">>
sQ2 == <<"Q", "2">>

\* ------------------------------------------------------------- languages
\* ["ro", "en", "fr", "de", "es", "it"]
LanguageCodes ==
  {<<"r", "o">>, <<"e", "n">>, <<"f", "r">>, <<"d", "e">>, <<"e", "s">>, <<"i", "t">>}

lRo == <<"r", "o">>

\* the default label of s1: language = "Romana" with its diacritics
lRomana == <<"R", "o", "m", "a", "n", "a">>

(* what a client may send as language: nothing, a code of the list in      *)
(* capitals and padded, a tag that is not on the list                      *)
LangInputs == {<<>>, <<"E", "N", " ">>, <<"x", "x">>}

\* lang || "ro"
orRo(lang) == IF lang = <<>> THEN lRo ELSE lang

\* p0a pickLanguageCode: String(lang || "").toLowerCase().trim(), or "ro"
pickLanguageCode(lang) ==
  LET v == trim(toLowerCase(lang))
  IN IF v \in LanguageCodes THEN v ELSE lRo

\* p3 normalizeLanguage: lang.trim().toLowerCase(), "ro" only when empty
normalizeLanguage(lang) ==
  IF lang = <<>> THEN lRo
  ELSE LET v == toLowerCase(trim(lang)) IN IF v # <<>> THEN v ELSE lRo

\* ------------------------------------------------- the model's raw output
(* One question object of the model's JSON.  idx and answer_index are      *)
(* optional numbers: <<>> when absent, <<k>> when present.                 *)
Item(q, ch, ans, ix, opts, ai) ==
  [question |-> q, choices |-> ch, answer |-> ans, idx |-> ix,
   options |-> opts, answer_index |-> ai]

abc == <<sA, sB, sC>>

itGood1 == Item(sQ1, abc, sA, None, abc, Some(0))
itGood2 == Item(sQ2, <<sB, sA, sC>>, sB, None, <<sB, sA, sC>>, Some(0))
itCase == Item(sQ1, abc, sa, None, abc, None)
itNoMatch == Item(sQ1, abc, sD, None, abc, Some(5))
itDup == Item(sQ1, <<sA, sA, sB>>, sA, None, <<sA, sA, sB>>, Some(0))
itPadded == Item(sQ2, <<sAsp, sA, sC>>, sAsp, None, <<sAsp, sA, sC>>, Some(0))
itEmptyQ == Item(<<>>, abc, sA, None, abc, Some(0))
itFour == Item(sQ1, <<sA, sB, sC, sD>>, sD, None, <<sA, sB, sC, sD>>, Some(3))
itIdx1 == Item(sQ1, abc, sA, Some(1), abc, Some(0))
itIdx0 == Item(sQ2, <<sB, sA, sC>>, sB, Some(0), <<sB, sA, sC>>, Some(0))

(* The text returned by one model call.  kind "garbage": not JSON;         *)
(* "object": a JSON object, with a questions array when hasQ; "array": a   *)
(* top-level JSON array of question objects.                               *)
Output(k, h, its) == [kind |-> k, hasQ |-> h, items |-> its]

RECURSIVE Repeat(_, _)
Repeat(x, k) == IF k = 0 THEN <<>> ELSE <<x>> \o Repeat(x, k - 1)

\* k well-formed questions with distinct texts for k <= 2
GoodItems(k) == IF k <= 1 THEN Repeat(itGood1, k) ELSE <<itGood1, itGood2>> \o Repeat(itGood1, k - 2)

ModelOutputs ==
  <<Output("garbage", FALSE, <<>>),
    Output("object", FALSE, <<>>),
    Output("object", TRUE, GoodItems(1)),
    Output("object", TRUE, GoodItems(MaxN)),
    Output("object", TRUE, GoodItems(MaxN + 1)),
    Output("object", TRUE, <<itCase>>),
    Output("object", TRUE, <<itNoMatch>>),
    Output("object", TRUE, <<itDup>>),
    Output("object", TRUE, <<itPadded>>),
    Output("object", TRUE, <<itFour>>),
    Output("object", TRUE, <<itEmptyQ, itGood2>>),
    Output("object", TRUE, <<itIdx1, itIdx0>>),
    Output("array", FALSE, GoodItems(MaxN))>>

OutIds == 1..Len(ModelOutputs)

(* The JSON text null: JSON.parse returns null for it.  Only p2a lets it   *)
(* through its parse step; NullOut is the id it has there.                 *)
JsonNull == Output("null", FALSE, <<>>)

NullOut == Len(ModelOutputs) + 1

\* ------------------------------------------------------ engine results
(* A question as an engine returns it.                                     *)
Clean(q, ch, ans, ix, ai) ==
  [question |-> q, choices |-> ch, answer |-> ans, idx |-> ix, answer_index |-> ai]

Ok(qs) == [ok |-> TRUE, err |-> "", questions |-> qs]

Fail(e) == [ok |-> FALSE, err |-> e, questions |-> <<>>]

\* JSON.parse succeeds and parsed.questions is an array
HasQuestions(out) == out.kind = "object" /\ out.hasQ

\* the first index of the set B of failing indices, 0 when none fails
FirstBad(B) == IF B = {} THEN 0 ELSE CHOOSE i \in B : \A j \in B : i <= j

(* p0a: parse, truncate to n, normalize, validate (no count check).        *)
generateQuestionsFromText_p0a(out, n) ==
  IF ~HasQuestions(out) THEN Fail("invalid_json")
  ELSE
    LET raw == slice(out.items, n)
        questions == [i \in 1..Len(raw) |->
          Clean(trim(raw[i].question), raw[i].choices, trim(raw[i].answer), None, None)]
        badFormat(i) == questions[i].question = <<>> \/ Len(questions[i].choices) # 3
        badAnswer(i) == ~includes(questions[i].choices, questions[i].answer)
        bad(i) == badFormat(i) \/ badAnswer(i)
        b == FirstBad({i \in 1..Len(questions) : bad(i)})
    IN IF b = 0 THEN Ok(questions)
       ELSE IF badFormat(b) THEN Fail("invalid_format")
            ELSE Fail("answer_not_in_choices")

\* Array.prototype.sort((a, b) => a.idx - b.idx): stable, ascending
RECURSIVE sortInsert(_, _)
sortInsert(s, x) ==
  IF s = <<>> THEN <<x>>
  ELSE IF x.idx[1] < Head(s).idx[1] THEN <<x>> \o s
       ELSE <<Head(s)>> \o sortInsert(Tail(s), x)

RECURSIVE sortByIdx(_)
sortByIdx(s) ==
  IF s = <<>> THEN <<>>
  ELSE sortInsert(sortByIdx(SubSeq(s, 1, Len(s) - 1)), s[Len(s)])

\* map + sort + reindex of p0b: idx taken from the model when finite, else i
cleanAndReindex_p0b(items) ==
  LET cleaned == [i \in 1..Len(items) |->
        Clean(safeStr(items[i].question),
              [j \in 1..Len(slice(items[i].choices, 3)) |-> safeStr(items[i].choices[j])],
              safeStr(items[i].answer),
              IF items[i].idx # None THEN items[i].idx ELSE Some(i - 1),
              None)]
      sorted == sortByIdx(cleaned)
  IN [i \in 1..Len(sorted) |-> [sorted[i] EXCEPT !.idx = Some(i - 1)]]

\* the answer p0b keeps: the model's when it matches a choice ignoring case,
\* else the first choice
forcedAnswer_p0b(q) ==
  IF toLowerCase(q.answer) \in {toLowerCase(q.choices[j]) : j \in 1..Len(q.choices)}
  THEN q.answer
  ELSE q.choices[1]

(* p0b: parse, exact count, clean, sort by idx, reindex, validate.         *)
generateQuestionsFromText_p0b(out, n) ==
  IF out.kind = "garbage" THEN Fail("invalid_json")
  ELSE
    LET questions == IF HasQuestions(out) THEN out.items ELSE <<>>
        cleaned == cleanAndReindex_p0b(questions)
        badFormat(i) == cleaned[i].question = <<>> \/ Len(cleaned[i].choices) # 3
        badDup(i) ==
          Cardinality({toLowerCase(cleaned[i].choices[j]) : j \in 1..Len(cleaned[i].choices)}) # 3
        bad(i) == badFormat(i) \/ badDup(i)
        b == FirstBad({i \in 1..Len(cleaned) : bad(i)})
    IN IF Len(questions) # n THEN Fail("count_mismatch")
       ELSE IF b = 0
            THEN Ok([i \in 1..Len(cleaned) |->
                      [cleaned[i] EXCEPT !.answer = forcedAnswer_p0b(cleaned[i])]])
            ELSE IF badFormat(b) THEN Fail("invalid_format")
                 ELSE Fail("duplicate_choices")

(* p0b POST /api/quiz/images: parse, exact count, clean, sort, reindex;    *)
(* no validation of the questions at all.                                  *)
generateFromImages_p0b(out, n) ==
  IF out.kind = "garbage" THEN Fail("invalid_json")
  ELSE
    LET questions == IF HasQuestions(out) THEN out.items ELSE <<>>
    IN IF Len(questions) # n THEN Fail("count_mismatch")
       ELSE Ok(cleanAndReindex_p0b(questions))

(* p2b makeCall: validation on the raw values, trimming on return.         *)
makeCall_p2b(out, n) ==
  IF ~HasQuestions(out) THEN Fail("invalid_json")
  ELSE
    LET qs == out.items
        badShape(i) ==
          qs[i].question = <<>> \/ Len(qs[i].choices) # 3 \/ qs[i].answer = <<>>
        badAnswer(i) == ~includes(qs[i].choices, qs[i].answer)
        badDup(i) == Cardinality(SetOf(qs[i].choices)) # 3
        bad(i) == badShape(i) \/ badAnswer(i) \/ badDup(i)
        b == FirstBad({i \in 1..Len(qs) : bad(i)})
    IN IF Len(qs) # n THEN Fail("count_mismatch")
       ELSE IF b = 0
            THEN Ok([i \in 1..Len(qs) |->
                      Clean(trim(qs[i].question),
                            [j \in 1..Len(qs[i].choices) |-> trim(qs[i].choices[j])],
                            trim(qs[i].answer), None, None)])
            ELSE IF badShape(b) THEN Fail("invalid_format")
                 ELSE IF badAnswer(b) THEN Fail("answer_not_in_choices")
                      ELSE Fail("duplicate_choices")

(* p3 and s3 generateQuiz: JSON.parse is the only check; the caller reads  *)
(* quiz.questions || [].                                                   *)
parseQuiz_p3(out) ==
  IF out.kind = "garbage" THEN Fail("invalid_json")
  ELSE Ok(IF HasQuestions(out)
          THEN [i \in 1..Len(out.items) |->
                 Clean(out.items[i].question, out.items[i].choices,
                       out.items[i].answer, None, None)]
          ELSE <<>>)

\* .filter((q) => q.question && q.options.length >= 2)
RECURSIVE filterValid(_)
filterValid(s) ==
  IF s = <<>> THEN <<>>
  ELSE (IF Head(s).question # <<>> /\ Len(Head(s).choices) >= 2
        THEN <<Head(s)>> ELSE <<>>) \o filterValid(Tail(s))

(* s1 normalizeQuestions: idx is the position in the raw array, assigned   *)
(* before the filter drops the items without text or with < 2 options.     *)
normalizeQuestions(out) ==
  IF out.kind = "garbage" \/ (out.kind = "object" /\ ~out.hasQ) THEN <<>>
  ELSE
    LET arr == out.items
        mapped == [i \in 1..Len(arr) |->
          Clean(trim(arr[i].question), arr[i].options, None, Some(i - 1),
                IF arr[i].answer_index # None THEN arr[i].answer_index ELSE Some(0))]
    IN filterValid(mapped)

(* p2a POST /api/quiz/pdf: JSON.parse(aiRaw), then questions.length rows   *)
(* (none when the parsed value is not an array).                           *)
parseArray_p2a(out) ==
  IF out.kind = "garbage" THEN Fail("invalid_json")
  ELSE Ok(IF out.kind = "array"
          THEN [i \in 1..Len(out.items) |->
                 Clean(out.items[i].question, out.items[i].choices,
                       out.items[i].answer, None, None)]
          ELSE <<>>)

\* ------------------------------------------------------- request inputs
UserIds == {"u1"}

\* text the extractor returns for an upload: nothing, or some text
ExtractedTexts == {"", "SRC"}

SourceTypes == {"topic", "pdf", "images"}

\* a stored source_text that is NULL or empty: JS `!sourceText`
IsBlank(t) == t = "null" \/ t = ""

Max(a, b) == IF a > b THEN a ELSE b

\* the numberOfQuestions a caller may send to p0b: 0 stands for a missing
\* or unreadable value, -1 for a negative one, 31 for one above the range
RawCounts == (0..MaxN) \cup {-1, 31}

\* p0a: Math.max(1, Math.min(30, n || 10))
clamp_p0a(x) == Max(1, Min(30, IF x = 0 THEN 10 ELSE x))

\* p2b clampQuestions: Number(n || 10), then 1..10
clampQuestions(x) == Max(1, Min(10, IF x = 0 THEN 10 ELSE x))

\* p3 clamp(safeNumber(v, 10), 3, 20)
clamp_p3(x) == Max(3, Min(20, x))

\* ------------------------------------------------------------- the state
VARIABLES
  quizzes,          \* table quizzes: row i has id i
  questions,        \* table questions: row i has id i
  quiz_sources,     \* table quiz_sources (p3)
  attempts,         \* table attempts: row i has id i
  attempt_answers,  \* table attempt_answers: a set of rows
  req,              \* the generate/regenerate request in flight, or its response
  rd,               \* the read request (GET quiz) in flight, or its response
  ar,               \* the attempt requests in flight, one per slot
  expected,         \* history: per quiz id, the rows its creating request set out to insert
  lastWrite,        \* history: per (attempt, question), what the last answer call sent
  answeredSince     \* history: the attempts answered since they were last finished

vars == <<quizzes, questions, quiz_sources, attempts, attempt_answers, req, rd, ar,
          expected, lastWrite, answeredSince>>

storeVars == <<quizzes, questions, quiz_sources>>

attemptVars == <<attempts, attempt_answers, ar, lastWrite, answeredSince>>

IdleReq ==
  [proto |-> "", route |-> "", pc |-> "idle", user |-> "", n |-> 0, stype |-> "",
   stext |-> "", from |-> 0, calls |-> 0, out1 |-> 0, payload |-> <<>>, quiz_id |-> 0,
   i |-> 0, status |-> 0, err |-> "", miscount |-> 0,
   unmatched |-> FALSE, thin |-> FALSE, language |-> <<>>, foreign |-> FALSE]

IdleRd ==
  [op |-> "", proto |-> "", pc |-> "idle", quiz_id |-> 0, user |-> "", rows |-> <<>>,
   list |-> <<>>, status |-> 0, cause |-> ""]

\* the two request slots of the attempt endpoints
Slots == {1, 2}

IdleAr ==
  [op |-> "", pc |-> "idle", attempt_id |-> 0, question_id |-> 0, quiz_id |-> 0,
   user |-> "", user_answer |-> <<>>, is_correct |-> FALSE, count |-> 0, score |-> 0,
   prev |-> 0, again |-> FALSE, conc |-> FALSE, status |-> 0]

\* model output r parsed into a questions array of another length than n
Miscounted(r, n) ==
  r # 0 /\ HasQuestions(ModelOutputs[r]) /\ Len(ModelOutputs[r].items) # n

\* the stated answer of one raw question object matches none of its choices:
\* as a text compared ignoring case (p0b), as an index into options (s1)
AnswerUnmatched(it, proto) ==
  IF proto = "s1"
  THEN it.answer_index = None \/ it.answer_index[1] \notin 0..(Len(it.options) - 1)
  ELSE toLowerCase(safeStr(it.answer)) \notin
         {toLowerCase(safeStr(it.choices[j])) : j \in 1..Len(it.choices)}

\* model output r carries a question whose stated answer matches no choice
Unmatched(r, proto) ==
  /\ r # 0
  /\ ModelOutputs[r].kind # "garbage"
  /\ \E i \in 1..Len(ModelOutputs[r].items) : AnswerUnmatched(ModelOutputs[r].items[i], proto)

\* the text extracted from an uploaded pdf or image set is empty
ThinText(stype, text) == stype \in {"pdf", "images"} /\ text = ""

\* a request may start when the previous one has been answered
ReqFree == req.pc \in {"idle", "done"}

NewReq(proto, route, user, n, stype, stext, from, lang) ==
  [IdleReq EXCEPT !.proto = proto, !.route = route, !.pc = "call1", !.user = user,
                  !.n = n, !.stype = stype, !.stext = stext, !.from = from,
                  !.language = lang]

\* res.status(code).json(...) without any model call or store write
Reject(proto, route, code, e) ==
  [IdleReq EXCEPT !.proto = proto, !.route = route, !.pc = "done", !.status = code,
                  !.err = e]

\* the handler answers: the request keeps what it did, drops its locals
Respond(code, e) ==
  [req EXCEPT !.pc = "done", !.status = code, !.err = e, !.payload = <<>>,
              !.out1 = 0, !.i = 0, !.user = "", !.n = 0, !.stype = "", !.stext = "",
              !.language = <<>>, !.foreign = FALSE]

QuizRow(user, stype, stext, n, lang) ==
  [user_id |-> user, source_type |-> stype, source_text |-> stext, n |-> n,
   language |-> lang]

QuestionRow(qid, ix, pos, q) ==
  [quiz_id |-> qid, idx |-> ix, position |-> pos, question |-> q.question,
   choices |-> q.choices, answer |-> q.answer, answer_index |-> q.answer_index]

QuestionsOf(qid) == {i \in 1..Len(questions) : questions[i].quiz_id = qid}

Init ==
  /\ quizzes = <<>>
  /\ questions = <<>>
  /\ quiz_sources = <<>>
  /\ attempts = <<>>
  /\ attempt_answers = {}
  /\ req = IdleReq
  /\ rd = IdleRd
  /\ ar = [s \in Slots |-> IdleAr]
  /\ expected = <<>>
  /\ lastWrite = <<>>
  /\ answeredSince = {}

\* ------------------------------------------------------------------ p0a
(* POST /api/quiz/topic, /pdf, /images of p0a: the source text is never    *)
(* empty (a placeholder stands in for a failed extraction); req.thin       *)
(* records that the text extracted from the upload was empty.              *)
Generate_p0a(user, rawN, stype, text, lang) ==
  /\ ReqFree
  /\ Len(quizzes) < MaxQuizzes
  /\ req' = [NewReq("p0a", "generate", user, clamp_p0a(rawN), stype, "SRC", 0,
                    pickLanguageCode(lang))
             EXCEPT !.thin = ThinText(stype, text)]
  /\ UNCHANGED <<storeVars, attemptVars, rd, expected>>

(* POST /api/quiz/regen of p0a, up to the model call; req.foreign records  *)
(* that the user id sent with the call is not the owner's.                 *)
Regen_p0a(user, qid) ==
  /\ ReqFree
  /\ Len(quizzes) < MaxQuizzes
  /\ req' =
       IF qid \notin 1..Len(quizzes) THEN Reject("p0a", "regen", 500, "not_found")
       ELSE LET quiz == quizzes[qid]
                sourceText == IF quiz.source_text = "null" THEN "" ELSE quiz.source_text
            IN IF user # "" /\ quiz.user_id \notin {"", "null"} /\ user # quiz.user_id
               THEN Reject("p0a", "regen", 403, "not_allowed")
               ELSE IF sourceText = ""
                    THEN [Reject("p0a", "regen", 400, "no_stored_source")
                          EXCEPT !.from = qid]
                    ELSE [NewReq("p0a", "regen", quiz.user_id, clamp_p0a(quiz.n),
                                 IF quiz.source_type \in {"", "null"} THEN "topic"
                                 ELSE quiz.source_type,
                                 sourceText, qid,
                                 pickLanguageCode(orRo(quiz.language)))
                          EXCEPT !.foreign = (user # quiz.user_id)]
  /\ UNCHANGED <<storeVars, attemptVars, rd, expected>>

(* generateQuestionsFromText of p0a: one model call, no retry.             *)
ModelReply_p0a(r) ==
  /\ req.proto = "p0a" /\ req.pc = "call1"
  /\ LET res == IF r = 0 THEN Fail("model_error")
                ELSE generateQuestionsFromText_p0a(ModelOutputs[r], req.n)
     IN req' = IF res.ok
               THEN [req EXCEPT !.calls = @ + 1, !.pc = "insQuiz", !.payload = res.questions]
               ELSE [Respond(500, res.err) EXCEPT !.calls = @ + 1]
  /\ UNCHANGED <<storeVars, attemptVars, rd, expected>>

(* insertQuizAndQuestions of p0a, step 1: the quiz row.                    *)
InsertQuiz_p0a(dbOk) ==
  /\ req.proto = "p0a" /\ req.pc = "insQuiz"
  /\ IF dbOk
     THEN /\ quizzes' = Append(quizzes,
                 QuizRow(req.user, req.stype, IF IsBlank(req.stext) THEN "" ELSE req.stext,
                         req.n, req.language))
          /\ expected' = Append(expected, Len(req.payload))
          /\ req' = [req EXCEPT !.pc = "insQuestions", !.quiz_id = Len(quizzes) + 1]
     ELSE /\ req' = Respond(500, "db_quiz")
          /\ UNCHANGED <<quizzes, expected>>
  /\ UNCHANGED <<questions, quiz_sources, attemptVars, rd>>

(* insertQuizAndQuestions of p0a, step 2: the question rows, idx = i.      *)
InsertQuestions_p0a(dbOk) ==
  /\ req.proto = "p0a" /\ req.pc = "insQuestions"
  /\ IF dbOk
     THEN /\ questions' = questions \o
                 [i \in 1..Len(req.payload) |->
                    QuestionRow(req.quiz_id, Some(i - 1), None, req.payload[i])]
          /\ req' = Respond(200, "")
     ELSE /\ req' = Respond(500, "db_questions")
          /\ UNCHANGED questions
  /\ UNCHANGED <<quizzes, quiz_sources, attemptVars, rd, expected>>

Next_p0a ==
  \/ \E u \in UserIds, k \in 1..MaxN, t \in SourceTypes, x \in ExtractedTexts :
       Generate_p0a(u, k, t, x, <<>>)
  \/ \E u \in UserIds \cup {"", "u2"}, q \in 1..MaxQuizzes : Regen_p0a(u, q)
  \/ \E r \in OutIds \cup {0} : ModelReply_p0a(r)
  \/ \E b \in BOOLEAN : InsertQuiz_p0a(b)
  \/ \E b \in BOOLEAN : InsertQuestions_p0a(b)

\* ------------------------------------------------------------------ p0b
(* POST /api/quiz/topic, /pdf, /images of p0b, up to the model call; the   *)
(* question count is taken as sent (no clamp).                             *)
Generate_p0b(user, rawN, stype, text, lang) ==
  /\ ReqFree
  /\ Len(quizzes) < MaxQuizzes
  /\ req' =
       IF user = ""
       THEN Reject("p0b", "generate", IF stype = "topic" THEN 500 ELSE 400, "missing_user")
       ELSE IF stype = "pdf" /\ text = ""
            THEN [Reject("p0b", "generate", 500, "no_text") EXCEPT !.thin = TRUE]
            ELSE NewReq("p0b", "generate", user, IF rawN = 0 THEN 10 ELSE rawN, stype,
                        IF stype = "pdf" THEN text ELSE "SRC", 0,
                        safeStr(orRo(lang)))
  /\ UNCHANGED <<storeVars, attemptVars, rd, expected>>

(* generateQuestionsFromText of p0b (topic, pdf) and the inline vision     *)
(* call of the images route: one model call, no retry; req.out1 is the     *)
(* model output the questions were taken from.                             *)
ModelReply_p0b(r) ==
  /\ req.proto = "p0b" /\ req.pc = "call1"
  /\ LET res == IF r = 0 THEN Fail("model_error")
                ELSE IF req.stype = "images"
                     THEN generateFromImages_p0b(ModelOutputs[r], req.n)
                     ELSE generateQuestionsFromText_p0b(ModelOutputs[r], req.n)
     IN req' = [(IF res.ok
                 THEN [req EXCEPT !.calls = @ + 1, !.pc = "insQuiz", !.payload = res.questions,
                                  !.out1 = r]
                 ELSE [Respond(500, res.err) EXCEPT !.calls = @ + 1])
                 EXCEPT !.miscount = @ + IF Miscounted(r, req.n) THEN 1 ELSE 0,
                        !.unmatched = Unmatched(r, "p0b")]
  /\ UNCHANGED <<storeVars, attemptVars, rd, expected>>

(* saveQuizToDB of p0b.                                                    *)
saveQuizToDB_p0b(dbOk) ==
  /\ req.proto = "p0b" /\ req.pc = "insQuiz"
  /\ IF dbOk
     THEN /\ quizzes' = Append(quizzes,
                 QuizRow(req.user, req.stype,
                         IF IsBlank(req.stext) THEN "null" ELSE req.stext, req.n,
                         req.language))
          /\ expected' = Append(expected, Len(req.payload))
          /\ req' = [req EXCEPT !.pc = "insQuestions", !.quiz_id = Len(quizzes) + 1]
     ELSE /\ req' = Respond(500, "db_quiz")
          /\ UNCHANGED <<quizzes, expected>>
  /\ UNCHANGED <<questions, quiz_sources, attemptVars, rd>>

(* saveQuestionsToDB of p0b: idx as the engine numbered it.                *)
saveQuestionsToDB_p0b(dbOk) ==
  /\ req.proto = "p0b" /\ req.pc = "insQuestions"
  /\ IF dbOk
     THEN /\ questions' = questions \o
                 [i \in 1..Len(req.payload) |->
                    QuestionRow(req.quiz_id, req.payload[i].idx, None, req.payload[i])]
          /\ req' = Respond(200, "")
     ELSE /\ req' = Respond(500, "db_questions")
          /\ UNCHANGED questions
  /\ UNCHANGED <<quizzes, quiz_sources, attemptVars, rd, expected>>

Next_p0b ==
  \/ \E u \in UserIds, k \in RawCounts, t \in SourceTypes, x \in ExtractedTexts :
       Generate_p0b(u, k, t, x, <<>>)
  \/ \E r \in OutIds \cup {0} : ModelReply_p0b(r)
  \/ \E b \in BOOLEAN : saveQuizToDB_p0b(b)
  \/ \E b \in BOOLEAN : saveQuestionsToDB_p0b(b)

\* ------------------------------------------------------------------ p2a
(* POST /api/quiz/pdf of p2a, up to the model call: nothing is validated   *)
(* and the prompt always asks for 10 questions.                            *)
Pdf_p2a ==
  /\ ReqFree
  /\ Len(quizzes) < MaxQuizzes
  /\ req' = NewReq("p2a", "generate", "null", 0, "pdf", "null", 0, lRo)
  /\ UNCHANGED <<storeVars, attemptVars, rd, expected>>

(* callOpenAI then JSON.parse of p2a; req.out1 notes that the parsed value *)
(* is null.                                                                *)
ModelReply_p2a(r) ==
  /\ req.proto = "p2a" /\ req.pc = "call1"
  /\ LET res == IF r = 0 THEN Fail("model_error")
                ELSE parseArray_p2a(IF r = NullOut THEN JsonNull ELSE ModelOutputs[r])
     IN req' = IF res.ok
               THEN [req EXCEPT !.calls = @ + 1, !.pc = "insQuiz", !.payload = res.questions,
                                !.out1 = IF r = NullOut THEN r ELSE 0]
               ELSE [Respond(500, res.err) EXCEPT !.calls = @ + 1]
  /\ UNCHANGED <<storeVars, attemptVars, rd, expected>>

(* the quiz insert of p2a: the error is not read, so a failed insert       *)
(* surfaces as the TypeError of quiz.id (with no questions to loop over,   *)
(* at res.json).  After the insert the loop reads questions.length, which  *)
(* throws when the parsed value is null.                                   *)
InsertQuiz_p2a(dbOk) ==
  /\ req.proto = "p2a" /\ req.pc = "insQuiz"
  /\ IF dbOk
     THEN /\ quizzes' = Append(quizzes, QuizRow("null", "pdf", "null", 0, lRo))
          /\ expected' = Append(expected, Len(req.payload))
          /\ req' = IF req.out1 = NullOut
                    THEN [Respond(500, "invalid_format") EXCEPT !.quiz_id = Len(quizzes) + 1]
                    ELSE IF req.payload = <<>>
                    THEN [Respond(200, "") EXCEPT !.quiz_id = Len(quizzes) + 1]
                    ELSE [req EXCEPT !.pc = "insQuestions", !.quiz_id = Len(quizzes) + 1,
                                     !.i = 1]
     ELSE /\ req' = Respond(500, "db_quiz")
          /\ UNCHANGED <<quizzes, expected>>
  /\ UNCHANGED <<questions, quiz_sources, attemptVars, rd>>

(* one turn of the insert loop of p2a: one row, idx = i + 1 (0-based i),   *)
(* the result of the insert is not looked at.                              *)
InsertQuestion_p2a(dbOk) ==
  /\ req.proto = "p2a" /\ req.pc = "insQuestions"
  /\ questions' = IF dbOk
                  THEN Append(questions,
                         QuestionRow(req.quiz_id, Some(req.i), None, req.payload[req.i]))
                  ELSE questions
  /\ req' = IF req.i = Len(req.payload) THEN Respond(200, "")
            ELSE [req EXCEPT !.i = @ + 1]
  /\ UNCHANGED <<quizzes, quiz_sources, attemptVars, rd, expected>>

Next_p2a ==
  \/ Pdf_p2a
  \/ \E r \in OutIds \cup {0, NullOut} : ModelReply_p2a(r)
  \/ \E b \in BOOLEAN : InsertQuiz_p2a(b)
  \/ \E b \in BOOLEAN : InsertQuestion_p2a(b)

\* ------------------------------------------------------------------ p2b
(* POST /api/quiz/topic and /pdf of p2b, up to the first model call.       *)
Generate_p2b(user, rawN, stype, text) ==
  /\ ReqFree
  /\ Len(quizzes) < MaxQuizzes
  /\ stype \in {"topic", "pdf"}
  /\ req' =
       IF user = "" THEN Reject("p2b", "generate", 400, "missing_user")
       ELSE IF stype = "pdf" /\ text = ""
            THEN Reject("p2b", "generate", 400, "no_text")
            ELSE NewReq("p2b", "generate", user, clampQuestions(rawN), stype,
                        IF stype = "pdf" THEN text ELSE "null", 0, lRo)
  /\ UNCHANGED <<storeVars, attemptVars, rd, expected>>

(* POST /api/quiz/regen/:quiz_id of p2b, up to the first model call: only  *)
(* a pdf quiz without stored text is turned away; the user id the client   *)
(* may send is not read.                                                   *)
Regen_p2b(user, qid) ==
  /\ ReqFree
  /\ Len(quizzes) < MaxQuizzes
  /\ req' =
       IF qid \notin 1..Len(quizzes) THEN Reject("p2b", "regen", 500, "not_found")
       ELSE LET quiz == quizzes[qid]
                sourceText == IF quiz.source_text = "null" THEN "" ELSE quiz.source_text
            IN IF quiz.source_type = "pdf" /\ sourceText = ""
               THEN [Reject("p2b", "regen", 400, "no_stored_source") EXCEPT !.from = qid]
               ELSE [NewReq("p2b", "regen", quiz.user_id, clampQuestions(quiz.n),
                            IF quiz.source_type \in {"", "null"} THEN "topic"
                            ELSE quiz.source_type,
                            IF sourceText = "" THEN "null" ELSE sourceText, qid,
                            orRo(quiz.language))
                     EXCEPT !.i = quiz.n, !.foreign = (user # quiz.user_id)]
  /\ UNCHANGED <<storeVars, attemptVars, rd, expected>>

(* generateQuizWithOpenAI of p2b: makeCall(1).                             *)
makeCall1_p2b(r) ==
  /\ req.proto = "p2b" /\ req.pc = "call1"
  /\ LET res == IF r = 0 THEN Fail("model_error") ELSE makeCall_p2b(ModelOutputs[r], req.n)
     IN req' = [(IF res.ok
                 THEN [req EXCEPT !.calls = @ + 1, !.pc = "insQuiz", !.payload = res.questions]
                 ELSE [req EXCEPT !.calls = @ + 1, !.pc = "call2"])
                 EXCEPT !.miscount = @ + IF Miscounted(r, req.n) THEN 1 ELSE 0]
  /\ UNCHANGED <<storeVars, attemptVars, rd, expected>>

(* a variant of the catch branch that calls again after a second failure   *)
makeCall2_retrying(r) ==
  /\ req.proto = "p2b" /\ req.pc = "call2"
  /\ LET res == IF r = 0 THEN Fail("model_error") ELSE makeCall_p2b(ModelOutputs[r], req.n)
     IN req' = [(IF res.ok
                 THEN [req EXCEPT !.calls = @ + 1, !.pc = "insQuiz", !.payload = res.questions]
                 ELSE [req EXCEPT !.calls = @ + 1])
                 EXCEPT !.miscount = @ + IF Miscounted(r, req.n) THEN 1 ELSE 0]
  /\ UNCHANGED <<storeVars, attemptVars, rd, expected>>

(* generateQuizWithOpenAI of p2b: the catch branch, makeCall(2).           *)
makeCall2_p2b(r) ==
  /\ req.proto = "p2b" /\ req.pc = "call2"
  /\ LET res == IF r = 0 THEN Fail("model_error") ELSE makeCall_p2b(ModelOutputs[r], req.n)
     IN req' = [(IF res.ok
                 THEN [req EXCEPT !.calls = @ + 1, !.pc = "insQuiz", !.payload = res.questions]
                 ELSE [Respond(500, res.err) EXCEPT !.calls = @ + 1])
                 EXCEPT !.miscount = @ + IF Miscounted(r, req.n) THEN 1 ELSE 0]
  /\ UNCHANGED <<storeVars, attemptVars, rd, expected>>

(* insertQuizAndQuestions of p2b, step 1: the quiz row; a regeneration     *)
(* copies the settings of the quiz it started from.                        *)
InsertQuiz_p2b(dbOk) ==
  /\ req.proto = "p2b" /\ req.pc = "insQuiz"
  /\ IF dbOk
     THEN /\ quizzes' = Append(quizzes,
                 QuizRow(req.user, req.stype,
                         IF IsBlank(req.stext) THEN "null" ELSE req.stext,
                         IF req.route = "regen" THEN req.i ELSE req.n, req.language))
          /\ expected' = Append(expected, Len(req.payload))
          /\ req' = [req EXCEPT !.pc = "insQuestions", !.quiz_id = Len(quizzes) + 1]
     ELSE /\ req' = Respond(500, "db_quiz")
          /\ UNCHANGED <<quizzes, expected>>
  /\ UNCHANGED <<questions, quiz_sources, attemptVars, rd>>

(* insertQuizAndQuestions of p2b, step 2: the question rows, idx = i + 1.  *)
InsertQuestions_p2b(dbOk) ==
  /\ req.proto = "p2b" /\ req.pc = "insQuestions"
  /\ IF dbOk
     THEN /\ questions' = questions \o
                 [i \in 1..Len(req.payload) |->
                    QuestionRow(req.quiz_id, Some(i), None, req.payload[i])]
          /\ req' = Respond(200, "")
     ELSE /\ req' = Respond(500, "db_questions")
          /\ UNCHANGED questions
  /\ UNCHANGED <<quizzes, quiz_sources, attemptVars, rd, expected>>

Next_p2b ==
  \/ \E u \in UserIds, k \in 1..MaxN, t \in SourceTypes, x \in ExtractedTexts :
       Generate_p2b(u, k, t, x)
  \/ \E u \in UserIds \cup {"", "u2"}, q \in 1..MaxQuizzes : Regen_p2b(u, q)
  \/ \E r \in OutIds \cup {0} : makeCall1_p2b(r)
  \/ \E r \in OutIds \cup {0} : makeCall2_p2b(r)
  \/ \E b \in BOOLEAN : InsertQuiz_p2b(b)
  \/ \E b \in BOOLEAN : InsertQuestions_p2b(b)

\* ------------------------------------------------------------------- p3
\* p3 normalizeUserId, s1 safeUserId: a blank id becomes a guest id
normalizeUserId(u) == IF u = "" THEN "guest" ELSE u

SourceRow(qid, stext, payload) ==
  [quiz_id |-> qid, source_text |-> stext, topic_payload |-> payload]

(* POST /api/quiz/topic, /pdf, /images of p3, up to the first model call;  *)
(* req.i holds whether a topic payload goes with the source.               *)
Generate_p3(user, rawN, stype, text, lang) ==
  /\ ReqFree
  /\ Len(quizzes) < MaxQuizzes
  /\ req' =
       IF stype # "topic" /\ text = ""
       THEN Reject("p3", "generate", 400, "no_text")
       ELSE [NewReq("p3", "generate", normalizeUserId(user), clamp_p3(rawN), stype,
                    IF stype = "topic" THEN "SRC" ELSE text, 0,
                    normalizeLanguage(lang))
             EXCEPT !.i = IF stype = "topic" THEN 1 ELSE 0]
  /\ UNCHANGED <<storeVars, attemptVars, rd, expected>>

\* getQuizWithSource: the quiz_sources row of a quiz, when there is exactly one
SourceOf(qid) ==
  LET S == {i \in 1..Len(quiz_sources) : quiz_sources[i].quiz_id = qid}
  IN IF Cardinality(S) = 1
     THEN quiz_sources[CHOOSE i \in S : TRUE]
     ELSE SourceRow(qid, "null", FALSE)

(* POST /api/quiz/regenerate of p3, up to the first model call.  For a     *)
(* topic quiz the brief is built again from the topic payload; its closing *)
(* sentence is worded otherwise than in the brief of the topic route, so   *)
(* it is another text than the stored one.                                 *)
Regen_p3(user, qid) ==
  /\ ReqFree
  /\ Len(quizzes) < MaxQuizzes
  /\ req' =
       IF qid \notin 1..Len(quizzes) THEN Reject("p3", "regen", 500, "not_found")
       ELSE LET quiz == quizzes[qid]
                src == SourceOf(qid)
                newSourceText ==
                  IF quiz.source_type = "topic" /\ src.topic_payload THEN "SRC_REBUILT"
                  ELSE IF src.source_text = "null" THEN "" ELSE src.source_text
            IN IF quiz.user_id # normalizeUserId(user)
               THEN Reject("p3", "regen", 403, "not_allowed")
               ELSE IF newSourceText = ""
                    THEN [Reject("p3", "regen", 400, "no_stored_source")
                          EXCEPT !.from = qid]
                    ELSE [NewReq("p3", "regen", normalizeUserId(user), quiz.n,
                                 quiz.source_type, newSourceText, qid,
                                 normalizeLanguage(orRo(quiz.language)))
                          EXCEPT !.i = IF src.topic_payload THEN 1 ELSE 0,
                                 !.foreign = (user # quiz.user_id)]
  /\ UNCHANGED <<storeVars, attemptVars, rd, expected>>

(* generateQuiz of p3: the first openaiCall and JSON.parse; a failed call  *)
(* throws out of generateQuiz, an unparsable output goes to the repair.    *)
openaiCall1_p3(r) ==
  /\ req.proto = "p3" /\ req.pc = "call1"
  /\ LET res == IF r = 0 THEN Fail("model_error") ELSE parseQuiz_p3(ModelOutputs[r])
     IN req' = [(IF res.ok
                 THEN [req EXCEPT !.calls = @ + 1, !.pc = "insQuiz", !.payload = res.questions]
                 ELSE IF r = 0 THEN [Respond(500, res.err) EXCEPT !.calls = @ + 1]
                      ELSE [req EXCEPT !.calls = @ + 1, !.pc = "call2", !.out1 = r])
                 EXCEPT !.miscount = @ + IF Miscounted(r, req.n) THEN 1 ELSE 0]
  /\ UNCHANGED <<storeVars, attemptVars, rd, expected>>

(* generateQuiz of p3: the repair call of the catch branch.                *)
openaiCall2_p3(r) ==
  /\ req.proto = "p3" /\ req.pc = "call2"
  /\ LET res == IF r = 0 THEN Fail("model_error") ELSE parseQuiz_p3(ModelOutputs[r])
     IN req' = [(IF res.ok
                 THEN [req EXCEPT !.calls = @ + 1, !.pc = "insQuiz", !.payload = res.questions,
                                  !.out1 = 0]
                 ELSE [Respond(500, res.err) EXCEPT !.calls = @ + 1])
                 EXCEPT !.miscount = @ + IF Miscounted(r, req.n) THEN 1 ELSE 0]
  /\ UNCHANGED <<storeVars, attemptVars, rd, expected>>

(* saveQuizToDb of p3, step 1: the quiz row, which has no source_text.     *)
saveQuiz_p3(dbOk) ==
  /\ req.proto = "p3" /\ req.pc = "insQuiz"
  /\ IF dbOk
     THEN /\ quizzes' = Append(quizzes, QuizRow(req.user, req.stype, "null", req.n, req.language))
          /\ expected' = Append(expected, Len(req.payload))
          /\ req' = [req EXCEPT !.pc = "insQuestions", !.quiz_id = Len(quizzes) + 1]
     ELSE /\ req' = Respond(500, "db_quiz")
          /\ UNCHANGED <<quizzes, expected>>
  /\ UNCHANGED <<questions, quiz_sources, attemptVars, rd>>

(* saveQuizToDb of p3, step 2: the question rows, position = idx + 1 and   *)
(* no idx column written.                                                  *)
saveQuestions_p3(dbOk) ==
  /\ req.proto = "p3" /\ req.pc = "insQuestions"
  /\ IF dbOk
     THEN /\ questions' = questions \o
                 [i \in 1..Len(req.payload) |->
                    QuestionRow(req.quiz_id, None, Some(i), req.payload[i])]
          /\ req' = [req EXCEPT !.pc = "insSource"]
     ELSE /\ req' = Respond(500, "db_questions")
          /\ UNCHANGED questions
  /\ UNCHANGED <<quizzes, quiz_sources, attemptVars, rd, expected>>

(* saveQuizToDb of p3, step 3: the quiz_sources row; a failure is logged   *)
(* and the quiz id is returned all the same.                               *)
saveSource_p3(dbOk) ==
  /\ req.proto = "p3" /\ req.pc = "insSource"
  /\ quiz_sources' = IF dbOk
                     THEN Append(quiz_sources,
                            SourceRow(req.quiz_id,
                                      IF IsBlank(req.stext) THEN "null" ELSE req.stext,
                                      req.i = 1))
                     ELSE quiz_sources
  /\ req' = Respond(200, "")
  /\ UNCHANGED <<quizzes, questions, attemptVars, rd, expected>>

Next_p3 ==
  \/ \E u \in UserIds, k \in 1..MaxN, t \in SourceTypes, x \in ExtractedTexts :
       Generate_p3(u, k, t, x, <<>>)
  \/ \E u \in UserIds \cup {"", "u2"}, q \in 1..MaxQuizzes : Regen_p3(u, q)
  \/ \E r \in OutIds \cup {0} : openaiCall1_p3(r)
  \/ \E r \in OutIds \cup {0} : openaiCall2_p3(r)
  \/ \E b \in BOOLEAN : saveQuiz_p3(b)
  \/ \E b \in BOOLEAN : saveQuestions_p3(b)
  \/ \E b \in BOOLEAN : saveSource_p3(b)

\* ------------------------------------------------------------------- s1
(* POST /api/quiz/topic, /pdf, /images of s1, up to the model call: an     *)
(* upload whose extracted text is too short is turned away.                *)
Generate_s1(user, stype, text) ==
  /\ ReqFree
  /\ Len(quizzes) < MaxQuizzes
  /\ req' =
       IF stype # "topic" /\ text = ""
       THEN [Reject("s1", "generate", 400, "insufficient_text") EXCEPT !.thin = TRUE]
       ELSE NewReq("s1", "generate", normalizeUserId(user), 0, stype, "SRC", 0,
                   lRomana)
  /\ UNCHANGED <<storeVars, attemptVars, rd, expected>>

(* the model call of s1, tryParseJSON and normalizeQuestions.              *)
ModelReply_s1(r) ==
  /\ req.proto = "s1" /\ req.pc = "call1"
  /\ req' =
       [(IF r = 0 THEN [Respond(500, "model_error") EXCEPT !.calls = @ + 1]
         ELSE IF ModelOutputs[r].kind = "garbage"
              THEN [Respond(500, "invalid_json") EXCEPT !.calls = @ + 1]
              ELSE IF normalizeQuestions(ModelOutputs[r]) = <<>>
                   THEN [Respond(500, "no_valid_questions") EXCEPT !.calls = @ + 1]
                   ELSE [req EXCEPT !.calls = @ + 1, !.pc = "insQuiz",
                                    !.payload = normalizeQuestions(ModelOutputs[r])])
        EXCEPT !.unmatched = Unmatched(r, "s1")]
  /\ UNCHANGED <<storeVars, attemptVars, rd, expected>>

(* supabaseInsertSmart("quizzes", ...) of s1.                              *)
InsertQuiz_s1(dbOk) ==
  /\ req.proto = "s1" /\ req.pc = "insQuiz"
  /\ IF dbOk
     THEN /\ quizzes' = Append(quizzes,
                 QuizRow(req.user, req.stype, req.stext, Len(req.payload),
                         req.language))
          /\ expected' = Append(expected, Len(req.payload))
          /\ req' = [req EXCEPT !.pc = "insQuestions", !.quiz_id = Len(quizzes) + 1]
     ELSE /\ req' = Respond(500, "db_quiz")
          /\ UNCHANGED <<quizzes, expected>>
  /\ UNCHANGED <<questions, quiz_sources, attemptVars, rd>>

(* the bulk insert of the questions of s1: idx and position are the idx    *)
(* normalizeQuestions gave; "no_position" is the missing-column error that *)
(* leads to the second attempt.                                            *)
InsertQuestions_s1(outcome) ==
  /\ req.proto = "s1" /\ req.pc = "insQuestions"
  /\ IF outcome = "ok"
     THEN /\ questions' = questions \o
                 [i \in 1..Len(req.payload) |->
                    QuestionRow(req.quiz_id, req.payload[i].idx, req.payload[i].idx,
                                req.payload[i])]
          /\ req' = Respond(200, "")
     ELSE /\ req' = IF outcome = "no_position" THEN [req EXCEPT !.pc = "insQuestions2"]
                    ELSE Respond(500, "db_questions")
          /\ UNCHANGED questions
  /\ UNCHANGED <<quizzes, quiz_sources, attemptVars, rd, expected>>

(* the second attempt of s1, the rows without their position.              *)
InsertQuestionsRetry_s1(dbOk) ==
  /\ req.proto = "s1" /\ req.pc = "insQuestions2"
  /\ IF dbOk
     THEN /\ questions' = questions \o
                 [i \in 1..Len(req.payload) |->
                    QuestionRow(req.quiz_id, req.payload[i].idx, None, req.payload[i])]
          /\ req' = Respond(200, "")
     ELSE /\ req' = Respond(500, "db_questions")
          /\ UNCHANGED questions
  /\ UNCHANGED <<quizzes, quiz_sources, attemptVars, rd, expected>>

Next_s1 ==
  \/ \E u \in UserIds \cup {""}, t \in SourceTypes, x \in ExtractedTexts :
       Generate_s1(u, t, x)
  \/ \E r \in OutIds \cup {0} : ModelReply_s1(r)
  \/ \E b \in BOOLEAN : InsertQuiz_s1(b)
  \/ \E o \in {"ok", "no_position", "error"} : InsertQuestions_s1(o)
  \/ \E b \in BOOLEAN : InsertQuestionsRetry_s1(b)

\* ------------------------------------------------------------------- s3
(* POST /api/quiz/pdf and /images of s3, up to the first model call; s3    *)
(* stores nothing.                                                         *)
Generate_s3(stype, text) ==
  /\ ReqFree
  /\ Len(quizzes) < MaxQuizzes
  /\ stype \in {"pdf", "images"}
  /\ req' = IF text = "" THEN Reject("s3", "generate", 400, "no_text")
            ELSE NewReq("s3", "generate", "", 0, stype, text, 0, <<>>)
  /\ UNCHANGED <<storeVars, attemptVars, rd, expected>>

(* generateQuiz of s3: the first call and JSON.parse.                      *)
fetch1_s3(r) ==
  /\ req.proto = "s3" /\ req.pc = "call1"
  /\ LET res == IF r = 0 THEN Fail("model_error") ELSE parseQuiz_p3(ModelOutputs[r])
     IN req' = IF res.ok THEN [Respond(200, "") EXCEPT !.calls = @ + 1]
               ELSE IF r = 0 THEN [Respond(500, res.err) EXCEPT !.calls = @ + 1]
                    ELSE [req EXCEPT !.calls = @ + 1, !.pc = "call2", !.out1 = r]
  /\ UNCHANGED <<storeVars, attemptVars, rd, expected>>

(* generateQuiz of s3: the one "fix the JSON" call of the catch branch.    *)
fetch2_s3(r) ==
  /\ req.proto = "s3" /\ req.pc = "call2"
  /\ LET res == IF r = 0 THEN Fail("model_error") ELSE parseQuiz_p3(ModelOutputs[r])
     IN req' = IF res.ok THEN [Respond(200, "") EXCEPT !.calls = @ + 1]
               ELSE [Respond(500, res.err) EXCEPT !.calls = @ + 1]
  /\ UNCHANGED <<storeVars, attemptVars, rd, expected>>

Next_s3 ==
  \/ \E t \in SourceTypes, x \in ExtractedTexts : Generate_s3(t, x)
  \/ \E r \in OutIds \cup {0} : fetch1_s3(r)
  \/ \E r \in OutIds \cup {0} : fetch2_s3(r)

\* ------------------------------------------------------------------- s2
\* s2 clampInt(n, 5, 30, 10): 0 stands for a value parseInt cannot read
clampInt(x) == IF x = 0 THEN 10 ELSE Min(30, Max(5, x))

Digits == <<"0", "1", "2", "3", "4", "5", "6", "7", "8", "9">>

\* the decimal digits of i, 0 <= i < 100
NumStr(i) ==
  IF i < 10 THEN <<Digits[i + 1]>> ELSE <<Digits[(i \div 10) + 1], Digits[(i % 10) + 1]>>

(* generateQuestionsWithAI of s2: n fixed demo questions, numbered from 1, *)
(* three choices, the first one the answer, idx = i.                       *)
generateQuestionsWithAI(n) ==
  [i \in 1..n |-> Clean(<<"Q">> \o NumStr(i), abc, sA, Some(i - 1), None)]

(* POST /api/quiz/topic and /pdf of s2, up to the quiz insert; no model is *)
(* called.                                                                 *)
Generate_s2(user, rawN, stype, text) ==
  /\ ReqFree
  /\ Len(quizzes) < MaxQuizzes
  /\ stype \in {"topic", "pdf"}
  /\ req' =
       IF user = "" THEN Reject("s2", "generate", 400, "missing_user")
       ELSE IF stype = "pdf" /\ text = ""
            THEN Reject("s2", "generate", 400, "no_text")
            ELSE [NewReq("s2", "generate", user, clampInt(rawN), stype, "SRC", 0, lRo)
                  EXCEPT !.pc = "insQuiz",
                         !.payload = generateQuestionsWithAI(clampInt(rawN))]
  /\ UNCHANGED <<storeVars, attemptVars, rd, expected>>

(* POST /api/quiz/regen/:quiz_id of s2, up to the quiz insert; the user id *)
(* the client may send is not read.                                        *)
Regen_s2(user, qid) ==
  /\ ReqFree
  /\ Len(quizzes) < MaxQuizzes
  /\ req' =
       IF qid \notin 1..Len(quizzes) THEN Reject("s2", "regen", 500, "not_found")
       ELSE LET quiz == quizzes[qid]
                sourceText == IF quiz.source_text = "null" THEN "" ELSE quiz.source_text
            IN IF sourceText = ""
               THEN [Reject("s2", "regen", 400, "no_stored_source") EXCEPT !.from = qid]
               ELSE [NewReq("s2", "regen", quiz.user_id, clampInt(quiz.n),
                            quiz.source_type, sourceText, qid,
                            pickLanguageCode(quiz.language))
                     EXCEPT !.pc = "insQuiz",
                            !.payload = generateQuestionsWithAI(clampInt(quiz.n)),
                            !.foreign = (user # quiz.user_id)]
  /\ UNCHANGED <<storeVars, attemptVars, rd, expected>>

\* a variant that writes the new quiz over the one it was regenerated from
insertQuiz_overwriting(dbOk) ==
  /\ req.proto = "s2" /\ req.pc = "insQuiz"
  /\ IF dbOk
     THEN /\ quizzes' =
               IF req.from \in 1..Len(quizzes)
               THEN [quizzes EXCEPT ![req.from] =
                       QuizRow(req.user, req.stype, "SRC", req.n, req.language)]
               ELSE Append(quizzes,
                      QuizRow(req.user, req.stype, req.stext, req.n, req.language))
          /\ expected' = IF req.from \in 1..Len(quizzes) THEN expected
                         ELSE Append(expected, Len(req.payload))
          /\ req' = [req EXCEPT !.pc = "insQuestions",
                                !.quiz_id = IF req.from \in 1..Len(quizzes) THEN req.from
                                            ELSE Len(quizzes) + 1]
     ELSE /\ req' = Respond(500, "db_quiz")
          /\ UNCHANGED <<quizzes, expected>>
  /\ UNCHANGED <<questions, quiz_sources, attemptVars, rd>>

(* insertQuiz of s2.                                                       *)
insertQuiz_s2(dbOk) ==
  /\ req.proto = "s2" /\ req.pc = "insQuiz"
  /\ IF dbOk
     THEN /\ quizzes' = Append(quizzes,
                 QuizRow(req.user, req.stype,
                         IF IsBlank(req.stext) THEN "null" ELSE req.stext, req.n,
                         req.language))
          /\ expected' = Append(expected, Len(req.payload))
          /\ req' = [req EXCEPT !.pc = "insQuestions", !.quiz_id = Len(quizzes) + 1]
     ELSE /\ req' = Respond(500, "db_quiz")
          /\ UNCHANGED <<quizzes, expected>>
  /\ UNCHANGED <<questions, quiz_sources, attemptVars, rd>>

(* insertQuestions of s2: idx as generated.                                *)
insertQuestions_s2(dbOk) ==
  /\ req.proto = "s2" /\ req.pc = "insQuestions"
  /\ IF dbOk
     THEN /\ questions' = questions \o
                 [i \in 1..Len(req.payload) |->
                    QuestionRow(req.quiz_id,
                                IF req.payload[i].idx = None THEN Some(i - 1)
                                ELSE req.payload[i].idx,
                                None, req.payload[i])]
          /\ req' = Respond(200, "")
     ELSE /\ req' = Respond(500, "db_questions")
          /\ UNCHANGED questions
  /\ UNCHANGED <<quizzes, quiz_sources, attemptVars, rd, expected>>

Next_s2 ==
  \/ \E u \in UserIds, k \in 1..MaxN, t \in {"topic", "pdf"}, x \in ExtractedTexts :
       Generate_s2(u, k, t, x)
  \/ \E u \in UserIds \cup {"", "u2"}, q \in 1..MaxQuizzes : Regen_s2(u, q)
  \/ \E b \in BOOLEAN : insertQuiz_s2(b)
  \/ \E b \in BOOLEAN : insertQuestions_s2(b)

Next ==
  Next_p0a \/ Next_p0b \/ Next_p2a \/ Next_p2b \/ Next_p3 \/ Next_s1 \/ Next_s2 \/ Next_s3

Spec == Init /\ [][Next]_vars

\* ------------------------------------------------------- reading a quiz
\* the prototypes whose GET of one quiz is modelled
ReadProtos == {"p0a", "p2b", "p3", "s1"}

\* the owners a listing may ask for
ListUsers == UserIds \cup {"null", ""}

\* the column of a question row that a route orders by
Col(row, c) == IF c = "position" THEN row.position ELSE row.idx

\* ascending order of an optional number, a missing value after every number
Before(x, y) == x # None /\ (y = None \/ x[1] < y[1])

(* .eq("quiz_id", id).order(c, { ascending: true }): the rows of the quiz  *)
(* in every order the store may return them, rows with equal or missing c  *)
(* in any order.                                                           *)
orderBy(qid, c) ==
  {f \in [1..Cardinality(QuestionsOf(qid)) -> QuestionsOf(qid)] :
     /\ \A a, b \in DOMAIN f : a # b => f[a] # f[b]
     /\ \A a, b \in DOMAIN f :
          a < b => ~Before(Col(questions[f[b]], c), Col(questions[f[a]], c))}

(* the status a GET of one quiz answers when a select fails: p0a answers   *)
(* 404 from its catch, s1 404 for the quiz select and 500 for the          *)
(* questions select, p2b and p3 500 from their catch.                      *)
errorStatus(proto, step) ==
  IF proto = "p0a" \/ (proto = "s1" /\ step = "quiz") THEN 404 ELSE 500

(* GET of one quiz, first await: the quiz row by .single(), which fails    *)
(* when no row has the id and when the store fails.                        *)
getQuiz_readQuiz(proto, qid, dbOk) ==
  /\ rd.pc \in {"idle", "done"}
  /\ rd' = IF dbOk /\ qid \in 1..Len(quizzes)
           THEN [IdleRd EXCEPT !.op = "get", !.proto = proto, !.pc = "readQuestions",
                               !.quiz_id = qid]
           ELSE [IdleRd EXCEPT !.op = "get", !.proto = proto, !.pc = "done",
                               !.quiz_id = qid, !.status = errorStatus(proto, "quiz"),
                               !.cause = IF dbOk THEN "missing" ELSE "store"]
  /\ UNCHANGED <<storeVars, attemptVars, req, expected>>

(* GET of one quiz, second await: the question rows of the quiz in the     *)
(* order of idx (of position in p3), then the response.                    *)
getQuiz_readQuestions(dbOk) ==
  /\ rd.pc = "readQuestions"
  /\ IF dbOk
     THEN \E rows \in orderBy(rd.quiz_id, IF rd.proto = "p3" THEN "position" ELSE "idx") :
            rd' = [rd EXCEPT !.pc = "done", !.rows = rows, !.status = 200]
     ELSE rd' = [rd EXCEPT !.pc = "done", !.status = errorStatus(rd.proto, "questions"),
                           !.cause = "store"]
  /\ UNCHANGED <<storeVars, attemptVars, req, expected>>

\* the columns a listing selects: no question is joined
Summary(q) == [id |-> q, source_type |-> quizzes[q].source_type]

\* quizzes k, k-1, .. 1 whoever owns them
RECURSIVE listAllQuizzes(_, _)
listAllQuizzes(user, k) ==
  IF k = 0 THEN <<>> ELSE <<Summary(k)>> \o listAllQuizzes(user, k - 1)

(* .eq("user_id", user_id).order("created_at", { ascending: false }) over  *)
(* quizzes 1..k: the later a quiz was inserted, the later its created_at.  *)
RECURSIVE listQuizzesForUser(_, _)
listQuizzesForUser(user, k) ==
  IF k = 0 THEN <<>>
  ELSE (IF quizzes[k].user_id = user THEN <<Summary(k)>> ELSE <<>>)
         \o listQuizzesForUser(user, k - 1)

(* GET /api/quizzes?user_id= of p0a (at most 50 rows) and of s2.           *)
listQuizzes(proto, user, dbOk) ==
  /\ rd.pc \in {"idle", "done"}
  /\ rd' = IF user = ""
           THEN [IdleRd EXCEPT !.op = "list", !.proto = proto, !.pc = "done", !.status = 400]
           ELSE IF ~dbOk
                THEN [IdleRd EXCEPT !.op = "list", !.proto = proto, !.pc = "done",
                                    !.user = user, !.status = 500, !.cause = "store"]
                ELSE [IdleRd EXCEPT !.op = "list", !.proto = proto, !.pc = "done",
                                    !.user = user, !.status = 200,
                                    !.list = IF proto = "p0a"
                                             THEN slice(listQuizzesForUser(user, Len(quizzes)), 50)
                                             ELSE listQuizzesForUser(user, Len(quizzes))]
  /\ UNCHANGED <<storeVars, attemptVars, req, expected>>

\* the GET of one quiz of p0a
Next_read ==
  \/ \E q \in 1..MaxQuizzes, b \in BOOLEAN : getQuiz_readQuiz("p0a", q, b)
  \/ \E b \in BOOLEAN : getQuiz_readQuestions(b)

NextConc == Next_p0a \/ Next_p2a \/ Next_p2b \/ Next_read

SpecConc == Init /\ [][NextConc]_vars

\* the GET of one quiz of every prototype, and the listings
Next_readAll ==
  \/ \E p \in ReadProtos, q \in 1..MaxQuizzes, b \in BOOLEAN : getQuiz_readQuiz(p, q, b)
  \/ \E b \in BOOLEAN : getQuiz_readQuestions(b)
  \/ \E p \in {"p0a", "s2"}, u \in ListUsers, b \in BOOLEAN : listQuizzes(p, u, b)

\* quizzes of two owners being created while they are read and listed
NextRead == Next_p0a \/ Next_p2a \/ Next_readAll

SpecRead == Init /\ [][NextRead]_vars

\* ------------------------------------------------------- attempts (p0b)
\* what the user may send as an answer
UserAnswers == {sAsp, sB}

SlotFree(s) == ar[s].pc \in {"idle", "done"}

AllFree == \A s \in Slots : SlotFree(s)

AnswerRow(aid, qn, ua, ok) ==
  [attempt_id |-> aid, question_id |-> qn, user_answer |-> ua, is_correct |-> ok]

RowsFor(aid, qn) ==
  {r \in attempt_answers : r.attempt_id = aid /\ r.question_id = qn}

\* a plain insert, with no conflict target
InsertRow(rows, row) == rows \cup {row}

\* an upsert that keeps the stored is_correct of the row it replaces
UpsertKeepingFlag(rows, row) ==
  LET old == {r \in rows : r.attempt_id = row.attempt_id /\ r.question_id = row.question_id}
  IN (rows \ old) \cup
       {IF old = {} THEN row
        ELSE [row EXCEPT !.is_correct = (CHOOSE r \in old : TRUE).is_correct]}

(* .upsert([row], { onConflict: "attempt_id,question_id" }): the row that  *)
(* has the same key is replaced as a whole.                                *)
Upsert(rows, row) ==
  {r \in rows : ~(r.attempt_id = row.attempt_id /\ r.question_id = row.question_id)}
    \cup {row}

\* the number of all answered questions
countAll(answers) == Cardinality(answers)

\* (answers || []).filter((a) => a.is_correct).length
countCorrect(answers) == Cardinality({a \in answers : a.is_correct})

(* a variant of the first await that counts the rows of every quiz         *)
Start_count_unfiltered(s, user, qid) ==
  /\ SlotFree(s)
  /\ Len(attempts) < MaxAttempts
  /\ ar' = [ar EXCEPT ![s] =
       IF user = "" THEN [IdleAr EXCEPT !.op = "start", !.pc = "done", !.status = 500]
       ELSE IF qid = 0 THEN [IdleAr EXCEPT !.op = "start", !.pc = "done", !.status = 400]
       ELSE [IdleAr EXCEPT !.op = "start", !.pc = "insert", !.user = user,
                           !.quiz_id = qid, !.count = Len(questions)]]
  /\ UNCHANGED <<storeVars, attempts, attempt_answers, lastWrite, answeredSince, req, rd,
                 expected>>

(* POST /api/attempts/start, first await: the count of the questions.      *)
Start_count(s, user, qid) ==
  /\ SlotFree(s)
  /\ Len(attempts) < MaxAttempts
  /\ ar' = [ar EXCEPT ![s] =
       IF user = "" THEN [IdleAr EXCEPT !.op = "start", !.pc = "done", !.status = 500]
       ELSE IF qid = 0 THEN [IdleAr EXCEPT !.op = "start", !.pc = "done", !.status = 400]
       ELSE [IdleAr EXCEPT !.op = "start", !.pc = "insert", !.user = user,
                           !.quiz_id = qid, !.count = Cardinality(QuestionsOf(qid))]]
  /\ UNCHANGED <<storeVars, attempts, attempt_answers, lastWrite, answeredSince, req, rd,
                 expected>>

(* POST /api/attempts/start, second await: the attempt row, score 0.       *)
Start_insert(s, dbOk) ==
  /\ ar[s].op = "start" /\ ar[s].pc = "insert"
  /\ IF dbOk /\ Len(attempts) < MaxAttempts
     THEN /\ attempts' = Append(attempts,
                 [quiz_id |-> ar[s].quiz_id, user_id |-> ar[s].user, score |-> 0,
                  total |-> ar[s].count, finished |-> FALSE, finished_at |-> 0])
          /\ ar' = [ar EXCEPT ![s] = [IdleAr EXCEPT !.op = "start", !.pc = "done",
                                                    !.status = 200,
                                                    !.attempt_id = Len(attempts) + 1]]
     ELSE /\ ar' = [ar EXCEPT ![s] = [IdleAr EXCEPT !.op = "start", !.pc = "done",
                                                    !.status = 500]]
          /\ UNCHANGED attempts
  /\ UNCHANGED <<storeVars, attempt_answers, lastWrite, answeredSince, req, rd, expected>>

\* a variant that compares the two answers ignoring case
isCorrect_ignoringCase(q, user_answer) ==
  toLowerCase(safeStr(q.answer)) = toLowerCase(user_answer)

\* const is_correct = safeStr(q.answer) === user_answer;
isCorrect(q, user_answer) == safeStr(q.answer) = user_answer

(* POST /api/attempts/answer, first await: the question is read and the    *)
(* answer compared with it; conc notes a call in flight for the same pair, *)
(* again a stored answer of the pair that differs from this one.           *)
Answer_read(s, aid, qn, raw) ==
  /\ SlotFree(s)
  /\ aid \in 1..Len(attempts)
  /\ LET racing == {t \in Slots \ {s} :
                      /\ ar[t].op = "answer" /\ ar[t].pc = "upsert"
                      /\ ar[t].attempt_id = aid /\ ar[t].question_id = qn}
     IN ar' = [t \in Slots |->
         IF t = s
         THEN IF qn \in 1..Len(questions)
              THEN [IdleAr EXCEPT !.op = "answer", !.pc = "upsert", !.attempt_id = aid,
                                  !.question_id = qn, !.user_answer = safeStr(raw),
                                  !.is_correct = isCorrect(questions[qn], safeStr(raw)),
                                  !.conc = (racing # {}),
                                  !.again = (\E r \in RowsFor(aid, qn) :
                                               r.user_answer # safeStr(raw))]
              ELSE [IdleAr EXCEPT !.op = "answer", !.pc = "done", !.status = 500]
         ELSE IF t \in racing /\ qn \in 1..Len(questions)
              THEN [ar[t] EXCEPT !.conc = TRUE]
              ELSE ar[t]]
  /\ UNCHANGED <<storeVars, attempts, attempt_answers, lastWrite, answeredSince, req, rd,
                 expected>>

\* a variant that also brings the score of the attempt up to date
Answer_upsert_rescoring(s, dbOk) ==
  /\ ar[s].op = "answer" /\ ar[s].pc = "upsert"
  /\ LET a == ar[s]
         key == <<a.attempt_id, a.question_id>>
         rows == Upsert(attempt_answers,
                        AnswerRow(a.attempt_id, a.question_id, a.user_answer, a.is_correct))
     IN IF dbOk
        THEN /\ attempt_answers' = rows
             /\ attempts' = [attempts EXCEPT ![a.attempt_id] =
                   [@ EXCEPT !.score =
                      countCorrect({r \in rows : r.attempt_id = a.attempt_id})]]
             /\ lastWrite' = [k \in DOMAIN lastWrite \cup {key} |->
                                IF k = key THEN <<a.user_answer, a.is_correct>>
                                ELSE lastWrite[k]]
             /\ answeredSince' = answeredSince \cup {a.attempt_id}
             /\ ar' = [ar EXCEPT ![s] = [@ EXCEPT !.pc = "done", !.status = 200]]
        ELSE /\ ar' = [ar EXCEPT ![s] = [IdleAr EXCEPT !.op = "answer", !.pc = "done",
                                                       !.status = 500]]
             /\ UNCHANGED <<attempt_answers, attempts, lastWrite, answeredSince>>
  /\ UNCHANGED <<storeVars, req, rd, expected>>

(* POST /api/attempts/answer, second await: the upsert and the response.   *)
Answer_upsert(s, dbOk) ==
  /\ ar[s].op = "answer" /\ ar[s].pc = "upsert"
  /\ LET a == ar[s]
         key == <<a.attempt_id, a.question_id>>
     IN IF dbOk
        THEN /\ attempt_answers' =
                  Upsert(attempt_answers,
                         AnswerRow(a.attempt_id, a.question_id, a.user_answer, a.is_correct))
             /\ lastWrite' = [k \in DOMAIN lastWrite \cup {key} |->
                                IF k = key THEN <<a.user_answer, a.is_correct>>
                                ELSE lastWrite[k]]
             /\ answeredSince' = answeredSince \cup {a.attempt_id}
             /\ ar' = [ar EXCEPT ![s] = [@ EXCEPT !.pc = "done", !.status = 200]]
        ELSE /\ ar' = [ar EXCEPT ![s] = [IdleAr EXCEPT !.op = "answer", !.pc = "done",
                                                       !.status = 500]]
             /\ UNCHANGED <<attempt_answers, lastWrite, answeredSince>>
  /\ UNCHANGED <<storeVars, attempts, req, rd, expected>>

(* POST /api/attempts/finish, first await: the attempt row.  finished_at   *)
(* is 0 for null and otherwise counts the instants nowISO() has given the  *)
(* attempt, each finish call reading the clock later than the one before.  *)
Finish_readAttempt(s, aid) ==
  /\ SlotFree(s)
  /\ aid \in 1..Len(attempts) => attempts[aid].finished_at < MaxFinishes
  /\ ar' = [ar EXCEPT ![s] =
       IF aid \in 1..Len(attempts)
       THEN [IdleAr EXCEPT !.op = "finish", !.pc = "readAnswers", !.attempt_id = aid]
       ELSE [IdleAr EXCEPT !.op = "finish", !.pc = "done", !.status = 500]]
  /\ UNCHANGED <<storeVars, attempts, attempt_answers, lastWrite, answeredSince, req, rd,
                 expected>>

(* POST /api/attempts/finish, second await: the answers of the attempt are *)
(* read and the score computed; prev and again note the score the attempt  *)
(* had and whether it was finished before with no answer since.            *)
Finish_readAnswers(s) ==
  /\ ar[s].op = "finish" /\ ar[s].pc = "readAnswers"
  /\ LET aid == ar[s].attempt_id
         answers == {r \in attempt_answers : r.attempt_id = aid}
     IN ar' = [ar EXCEPT ![s] =
          [@ EXCEPT !.pc = "update", !.score = countCorrect(answers),
                    !.prev = attempts[aid].score,
                    !.again = attempts[aid].finished /\ aid \notin answeredSince]]
  /\ UNCHANGED <<storeVars, attempts, attempt_answers, lastWrite, answeredSince, req, rd,
                 expected>>

\* a variant that adds the new score to the stored one (up to MaxN)
Finish_update_adding(s, dbOk) ==
  /\ ar[s].op = "finish" /\ ar[s].pc = "update"
  /\ LET aid == ar[s].attempt_id
     IN IF dbOk
        THEN /\ attempts' = [attempts EXCEPT ![aid] =
                  [@ EXCEPT !.score = Min(@ + ar[s].score, MaxN),
                            !.finished = TRUE, !.finished_at = @ + 1]]
             /\ answeredSince' = answeredSince \ {aid}
             /\ ar' = [ar EXCEPT ![s] = [@ EXCEPT !.pc = "done", !.status = 200]]
        ELSE /\ ar' = [ar EXCEPT ![s] = [IdleAr EXCEPT !.op = "finish", !.pc = "done",
                                                       !.status = 500]]
             /\ UNCHANGED <<attempts, answeredSince>>
  /\ UNCHANGED <<storeVars, attempt_answers, lastWrite, req, rd, expected>>

(* POST /api/attempts/finish, third await: score and finished_at are       *)
(* written and the updated attempt returned.                               *)
Finish_update(s, dbOk) ==
  /\ ar[s].op = "finish" /\ ar[s].pc = "update"
  /\ LET aid == ar[s].attempt_id
     IN IF dbOk
        THEN /\ attempts' = [attempts EXCEPT ![aid] =
                  [@ EXCEPT !.score = ar[s].score, !.finished = TRUE,
                            !.finished_at = @ + 1]]
             /\ answeredSince' = answeredSince \ {aid}
             /\ ar' = [ar EXCEPT ![s] = [@ EXCEPT !.pc = "done", !.status = 200]]
        ELSE /\ ar' = [ar EXCEPT ![s] = [IdleAr EXCEPT !.op = "finish", !.pc = "done",
                                                       !.status = 500]]
             /\ UNCHANGED <<attempts, answeredSince>>
  /\ UNCHANGED <<storeVars, attempt_answers, lastWrite, req, rd, expected>>

\* the model outputs p0b accepts for a topic quiz of n questions
Accepted_p0b(n) ==
  {k \in OutIds : generateQuestionsFromText_p0b(ModelOutputs[k], n).ok}

(* the store once p0b has created one topic quiz of MaxN questions, and    *)
(* nothing else yet                                                        *)
InitAttempt ==
  /\ \E k \in Accepted_p0b(MaxN) :
       LET qs == generateQuestionsFromText_p0b(ModelOutputs[k], MaxN).questions
       IN /\ quizzes = <<QuizRow("u1", "topic", "SRC", MaxN, lRo)>>
          /\ questions = [i \in 1..Len(qs) |-> QuestionRow(1, qs[i].idx, None, qs[i])]
          /\ expected = <<MaxN>>
  /\ quiz_sources = <<>>
  /\ attempts = <<>>
  /\ attempt_answers = {}
  /\ req = IdleReq
  /\ rd = IdleRd
  /\ ar = [s \in Slots |-> IdleAr]
  /\ lastWrite = <<>>
  /\ answeredSince = {}

\* starting attempts and answering, the answer calls overlapping
NextAttempt ==
  \/ \E u \in UserIds, q \in 1..Len(quizzes) : Start_count(1, u, q)
  \/ \E b \in BOOLEAN : Start_insert(1, b)
  \/ \E s \in Slots, a \in 1..MaxAttempts, q \in 1..MaxN, x \in UserAnswers :
       Answer_read(s, a, q, x)
  \/ \E s \in Slots, b \in BOOLEAN : Answer_upsert(s, b)

SpecAttempt == InitAttempt /\ [][NextAttempt]_vars

\* the attempt endpoints, one request after the other
NextAttemptSeq ==
  \/ \E u \in UserIds \cup {""}, q \in 1..Len(quizzes) : AllFree /\ Start_count(1, u, q)
  \/ \E b \in BOOLEAN : Start_insert(1, b)
  \/ \E a \in 1..MaxAttempts, q \in 0..MaxN, x \in UserAnswers :
       AllFree /\ Answer_read(1, a, q, x)
  \/ \E b \in BOOLEAN : Answer_upsert(1, b)
  \/ \E a \in 1..MaxAttempts : AllFree /\ Finish_readAttempt(1, a)
  \/ Finish_readAnswers(1)
  \/ \E b \in BOOLEAN : Finish_update(1, b)

SpecAttemptSeq == InitAttempt /\ [][NextAttemptSeq]_vars

\* the one attempt of a client, started and finished while its answers arrive
NextFinishRace ==
  \/ \E u \in UserIds, q \in 1..Len(quizzes) : attempts = <<>> /\ Start_count(1, u, q)
  \/ \E b \in BOOLEAN : Start_insert(1, b)
  \/ \E a \in 1..MaxAttempts : Finish_readAttempt(1, a)
  \/ Finish_readAnswers(1)
  \/ \E b \in BOOLEAN : Finish_update(1, b)
  \/ \E a \in 1..MaxAttempts, q \in 1..MaxN, x \in UserAnswers : Answer_read(2, a, q, x)
  \/ \E b \in BOOLEAN : Answer_upsert(2, b)

SpecFinishRace == InitAttempt /\ [][NextFinishRace]_vars

(* the store once p0b has created a topic quiz of one question and one of  *)
(* MaxN questions                                                          *)
InitStart ==
  /\ \E k1 \in Accepted_p0b(1), k2 \in Accepted_p0b(MaxN) :
       LET q1 == generateQuestionsFromText_p0b(ModelOutputs[k1], 1).questions
           q2 == generateQuestionsFromText_p0b(ModelOutputs[k2], MaxN).questions
       IN /\ quizzes = <<QuizRow("u1", "topic", "SRC", 1, lRo),
                       QuizRow("u1", "topic", "SRC", MaxN, lRo)>>
          /\ questions = [i \in 1..Len(q1) |-> QuestionRow(1, q1[i].idx, None, q1[i])] \o
                         [i \in 1..Len(q2) |-> QuestionRow(2, q2[i].idx, None, q2[i])]
          /\ expected = <<1, MaxN>>
  /\ quiz_sources = <<>>
  /\ attempts = <<>>
  /\ attempt_answers = {}
  /\ req = IdleReq
  /\ rd = IdleRd
  /\ ar = [s \in Slots |-> IdleAr]
  /\ lastWrite = <<>>
  /\ answeredSince = {}

\* attempts being started, two calls overlapping; quiz id 0 is a missing
\* quiz_id, the id past the last quiz one that no quiz has
NextStart ==
  \/ \E s \in Slots, u \in UserIds \cup {""}, q \in 0..(Len(quizzes) + 1) : Start_count(s, u, q)
  \/ \E s \in Slots, b \in BOOLEAN : Start_insert(s, b)

SpecStart == InitStart /\ [][NextStart]_vars

(* the attempt endpoints one request after the other on the store of two   *)
(* quizzes: one attempt, answered for any question of the store            *)
NextAnswer ==
  \/ \E q \in 1..Len(quizzes) : AllFree /\ attempts = <<>> /\ Start_count(1, "u1", q)
  \/ \E b \in BOOLEAN : Start_insert(1, b)
  \/ \E q \in 1..(MaxN + 1), x \in UserAnswers \cup {sa} :
       AllFree /\ Answer_read(1, 1, q, x)
  \/ \E b \in BOOLEAN : Answer_upsert(1, b)
  \/ AllFree /\ Finish_readAttempt(1, 1)
  \/ Finish_readAnswers(1)
  \/ \E b \in BOOLEAN : Finish_update(1, b)

SpecAnswer == InitStart /\ [][NextAnswer]_vars

\* ------------------------------------------- the language of a quiz
(* topic quizzes asked for in the languages a client may send, by the      *)
(* topic routes of p0a, p0b and p3                                         *)
NextLang ==
  \/ \E k \in 1..MaxN, l \in LangInputs : Generate_p0a("u1", k, "topic", "SRC", l)
  \/ \E k \in 1..MaxN, l \in LangInputs : Generate_p0b("u1", k, "topic", "SRC", l)
  \/ \E k \in 1..MaxN, l \in LangInputs : Generate_p3("u1", k, "topic", "SRC", l)
  \/ \E u \in UserIds, q \in 1..MaxQuizzes : Regen_p0a(u, q)
  \/ \E u \in UserIds, q \in 1..MaxQuizzes : Regen_p3(u, q)
  \/ \E r \in OutIds \cup {0} : ModelReply_p0a(r)
  \/ \E r \in OutIds \cup {0} : ModelReply_p0b(r)
  \/ \E r \in OutIds \cup {0} : openaiCall1_p3(r)
  \/ \E r \in OutIds \cup {0} : openaiCall2_p3(r)
  \/ InsertQuiz_p0a(TRUE) \/ InsertQuestions_p0a(TRUE)
  \/ saveQuizToDB_p0b(TRUE) \/ saveQuestionsToDB_p0b(TRUE)
  \/ saveQuiz_p3(TRUE) \/ saveQuestions_p3(TRUE) \/ saveSource_p3(TRUE)

SpecLang == Init /\ [][NextLang]_vars

\* ------------------------------------------- a model call that hangs
(* await fetch(...) of p3 and await openai...create(...) of p0a and p2b:   *)
(* the handler sets no timer and passes no abort signal, so a call the     *)
(* service never answers leaves the handler at its await for good.         *)
ModelNeverReturns ==
  /\ req.proto \in {"p0a", "p2b", "p3"}
  /\ req.pc \in {"call1", "call2"}
  /\ req' = [req EXCEPT !.pc = "hung"]
  /\ UNCHANGED <<storeVars, attemptVars, rd, expected>>

NextLive == Next_p0a \/ Next_p2b \/ Next_p3 \/ ModelNeverReturns

\* every step the handlers and the services can take is eventually taken
SpecLive == Init /\ [][NextLive]_vars /\ WF_vars(NextLive)

\* ------------------------------------------------- properties of Spec
\* a quiz whose creating request is no longer inserting rows
Settled(qid) == req.pc = "done" \/ req.quiz_id # qid

\* the answer equals exactly one of the choices, after trimming
AnswerMatchesOneChoice(q) ==
  Cardinality({j \in 1..Len(q.choices) : trim(q.choices[j]) = trim(q.answer)}) = 1

\* the store has no text to regenerate quiz qid from
NoStoredSource(qid) ==
  /\ IsBlank(quizzes[qid].source_text)
  /\ IsBlank(SourceOf(qid).source_text)
  /\ ~SourceOf(qid).topic_payload

(* C1: whatever the model answers, one generation request makes at most    *)
(* two model calls before it returns a quiz or fails.                      *)
C1_AtMostTwoCalls == req.calls <= 2

\* a request that failed after its second call
C1_Witness == req.pc = "done" /\ req.calls = 2 /\ req.status = 500

(* C2: every question the engine returns and every persisted question row *)
(* that carries a textual answer has an answer equal to exactly one of its *)
(* choices after trimming.                                                 *)
C2_AnswerIsOneChoice ==
  /\ \A i \in 1..Len(questions) :
       questions[i].answer_index = None => AnswerMatchesOneChoice(questions[i])
  /\ \A i \in 1..Len(req.payload) :
       req.payload[i].answer_index = None => AnswerMatchesOneChoice(req.payload[i])

(* C3: the idx values of the n question rows of a persisted quiz are       *)
(* exactly 0..n-1, without gap or duplicate.                               *)
C3_IdxContiguous ==
  \A qid \in 1..Len(quizzes) :
    Settled(qid) /\ (req.quiz_id = qid => req.status = 200) =>
      /\ {questions[i].idx : i \in QuestionsOf(qid)} =
           {Some(k) : k \in 0..(Cardinality(QuestionsOf(qid)) - 1)}

(* C4: once a request has failed at the insert of the question rows, the   *)
(* quiz row it inserted is not in the store with zero questions.           *)
C4_NoOrphanAfterFailure ==
  req.pc = "done" /\ req.err = "db_questions" =>
    ~(req.quiz_id \in 1..Len(quizzes) /\ QuestionsOf(req.quiz_id) = {})

(* C10: a regeneration of a pdf or images quiz without stored source is    *)
(* turned away for the missing source: it makes no model call and inserts  *)
(* nothing.                                                                *)
C10_RegenNeedsStoredSource ==
  /\ req.route = "regen" /\ req.from \in 1..Len(quizzes)
  /\ quizzes[req.from].source_type \in {"pdf", "images"} /\ NoStoredSource(req.from)
  => req.pc = "done" /\ req.err = "no_stored_source" /\ req.calls = 0 /\ req.quiz_id = 0

(* C11: a regeneration of a topic quiz is never turned away for a missing  *)
(* stored source, whatever source text the quiz was saved with.            *)
C11_TopicRegenNeverRefused ==
  /\ req.route = "regen" /\ req.from \in 1..Len(quizzes)
  /\ quizzes[req.from].source_type = "topic"
  => req.err # "no_stored_source"

(* C12: a step of any generate or regenerate request leaves every quiz row *)
(* as it was, and every question row and stored source too; the quiz a     *)
(* regeneration writes has an id of its own.                               *)
C12_ExistingQuizUntouched ==
  [][/\ Len(quizzes') >= Len(quizzes)
     /\ SubSeq(quizzes', 1, Len(quizzes)) = quizzes
     /\ Len(questions') >= Len(questions)
     /\ SubSeq(questions', 1, Len(questions)) = questions
     /\ Len(quiz_sources') >= Len(quiz_sources)
     /\ SubSeq(quiz_sources', 1, Len(quiz_sources)) = quiz_sources
     /\ \A i \in (Len(questions) + 1)..Len(questions') :
          questions'[i].quiz_id = req.quiz_id /\ req.quiz_id # req.from]_vars

\* a regeneration has stored its new quiz and questions
C12_Witness ==
  /\ req.route = "regen" /\ req.pc = "done" /\ req.status = 200
  /\ req.from \in 1..Len(quizzes) /\ req.quiz_id \in 1..Len(quizzes)
  /\ req.quiz_id # req.from
  /\ QuestionsOf(req.quiz_id) # {}

\* the choices of q, compared ignoring case and surrounding blanks
ChoiceKeys(q) == {toLowerCase(trim(q.choices[j])) : j \in 1..Len(q.choices)}

(* C13: every question row stored for the quiz of a request of the three   *)
(* engines that ask for three choices has exactly three choices, pairwise  *)
(* distinct when compared ignoring case and surrounding blanks.            *)
C13_ThreeDistinctChoices ==
  req.proto \in {"p0a", "p0b", "p2b"} /\ req.quiz_id \in 1..Len(quizzes) =>
    \A i \in QuestionsOf(req.quiz_id) :
      Len(questions[i].choices) = 3 /\ Cardinality(ChoiceKeys(questions[i])) = 3

(* C14: the questions an engine hands to the store are as many as the      *)
(* request asked for, and a quiz stored by a successful request has        *)
(* exactly that many question rows.                                        *)
C14_ExactlyRequestedCount ==
  req.proto \in {"p0a", "p0b", "p3"} =>
    /\ req.pc \in {"insQuiz", "insQuestions"} => Len(req.payload) = req.n
    /\ req.pc = "done" /\ req.status = 200 /\ req.quiz_id \in 1..Len(quizzes) =>
         Cardinality(QuestionsOf(req.quiz_id)) = quizzes[req.quiz_id].n

(* C15: a reply that parsed with another number of questions than asked   *)
(* is followed by one more model call, and a request whose two replies     *)
(* both had the wrong number fails without having stored anything.         *)
(* req.miscount counts the replies of the request that parsed with a       *)
(* wrong number of questions.                                              *)
C15_OneRepairThenFail ==
  req.proto \in {"p0b", "p2b", "p3"} =>
    /\ req.miscount >= 1 => req.pc = "call2" \/ req.calls = 2
    /\ req.miscount = 2 => req.pc = "done" /\ req.status = 500 /\ req.quiz_id = 0

(* C16: a request whose model reply had a question with a stated answer    *)
(* matching none of its choices fails and stores nothing; req.unmatched    *)
(* records that the reply had such a question.                             *)
C16_UnmatchedAnswerIsAnError ==
  req.proto \in {"p0b", "s1"} /\ req.unmatched =>
    req.pc = "done" /\ req.status = 500 /\ req.quiz_id = 0

(* C22: a request that failed because the model call itself failed is      *)
(* answered otherwise than one whose model output failed parsing or        *)
(* validation, which the handlers answer with status 500.                  *)
C22_UnavailableToldApart ==
  req.pc = "done" /\ req.err = "model_error" => req.status # 500

(* C23: a request whose upload gave no text is answered as an input error  *)
(* (status 400) without a model call and without a quiz being stored.      *)
C23_ThinTextRejected ==
  req.thin =>
    /\ req.calls = 0 /\ req.quiz_id = 0
    /\ req.pc = "done" => req.status = 400

(* C24: a generate request with a blank user key is turned away before it  *)
(* calls the model or writes a row: no request goes on under the guest id  *)
(* that stands in for a blank key, and no quiz is stored under it.         *)
C24_BlankUserRejected ==
  /\ req.user # normalizeUserId("")
  /\ \A q \in 1..Len(quizzes) : quizzes[q].user_id # normalizeUserId("")

(* C25: when a generate or regenerate request answers success with a quiz  *)
(* id, the quiz row is stored and so is every question the engine          *)
(* produced for it.                                                        *)
C25_SuccessMeansAllStored ==
  req.pc = "done" /\ req.status = 200 /\ req.quiz_id # 0 =>
    /\ req.quiz_id \in 1..Len(quizzes)
    /\ Cardinality(QuestionsOf(req.quiz_id)) = expected[req.quiz_id]

(* C27: the questions p0b hands to the store are those of the model's      *)
(* output array in the order of that array, question i with idx i - 1,     *)
(* whatever idx the output carried.                                        *)
C27_IdxIsArrayPosition ==
  req.proto = "p0b" /\ req.pc \in {"insQuiz", "insQuestions"} /\ req.out1 # 0 =>
    \A i \in 1..Len(req.payload) :
      /\ req.payload[i].idx = Some(i - 1)
      /\ req.payload[i].question = safeStr(ModelOutputs[req.out1].items[i].question)

(* C28: in the questions an engine returns, an answer that equals one of   *)
(* the choices when case is ignored is that choice, letter for letter.     *)
C28_AnswerSnappedToChoice ==
  \A i \in 1..Len(req.payload) :
    toLowerCase(req.payload[i].answer) \in
        {toLowerCase(req.payload[i].choices[j]) : j \in 1..Len(req.payload[i].choices)}
      => req.payload[i].answer \in SetOf(req.payload[i].choices)

(* C29: a second model call is made only for a first output that came back *)
(* and failed, and its request carries that output (req.out1).             *)
C29_RepairCarriesBadOutput ==
  req.pc = "call2" => req.out1 \in OutIds

(* C30: whatever numberOfQuestions the caller sent, the count a request of *)
(* p0a, p0b or s2 generates with is an integer from 1 to 30.               *)
C30_CountInRange ==
  req.proto \in {"p0a", "p0b", "s2"} /\ req.pc \in {"call1", "insQuiz", "insQuestions"} =>
    req.n \in 1..30

\* ---------------------------------------------- properties of SpecConc
(* C5: a reader that got a quiz got its whole question set: the rows it    *)
(* was answered with are as many as the creating request set out to insert.*)
C5_ReaderSeesWholeQuiz ==
  rd.op = "get" /\ rd.pc = "done" /\ rd.status = 200 => Len(rd.rows) = expected[rd.quiz_id]

(* C17: the response of a successful GET of one quiz lists every question  *)
(* row of that quiz once and no other row, in ascending order of idx.      *)
C17_AllRowsInIdxOrder ==
  [][rd.pc = "readQuestions" /\ rd'.pc = "done" /\ rd'.status = 200 =>
       /\ Len(rd'.rows) = Cardinality(QuestionsOf(rd.quiz_id))
       /\ {rd'.rows[a] : a \in 1..Len(rd'.rows)} = QuestionsOf(rd.quiz_id)
       /\ \A a, b \in 1..Len(rd'.rows) :
            a < b => ~Before(questions[rd'.rows[b]].idx, questions[rd'.rows[a]].idx)]_vars

(* C18: a GET of one quiz answers 404 exactly when no quiz has the id, so  *)
(* that a missing quiz and a failing store are told apart, and an answer   *)
(* other than 200 carries no row.                                          *)
C18_NotFoundToldApart ==
  rd.op = "get" /\ rd.pc = "done" =>
    /\ rd.cause = "missing" <=> rd.status = 404
    /\ rd.status # 200 => rd.rows = <<>>

(* C19: a listing answers only quizzes owned by the user asked for, the    *)
(* later created first, and its summaries carry no questions.              *)
C19_ListOwnQuizzesNewestFirst ==
  rd.op = "list" /\ rd.pc = "done" /\ rd.status = 200 =>
    /\ \A a \in 1..Len(rd.list) :
         /\ rd.list[a].id \in 1..Len(quizzes)
         /\ quizzes[rd.list[a].id].user_id = rd.user
         /\ "questions" \notin DOMAIN rd.list[a]
    /\ \A a, b \in 1..Len(rd.list) : a < b => rd.list[a].id > rd.list[b].id

\* a listing that left out the quiz of another owner
C19_Witness ==
  /\ rd.op = "list" /\ rd.pc = "done" /\ rd.status = 200
  /\ Len(rd.list) >= 1
  /\ \E q \in 1..Len(quizzes) : quizzes[q].user_id # rd.user

\* ----------------------------------------- properties of the attempts
CorrectRows(aid) == {r \in attempt_answers : r.attempt_id = aid /\ r.is_correct}

(* C6: requests one after the other: every (attempt, question) pair has at *)
(* most one answer row, and that row holds the answer and the flag of the  *)
(* latest answer call for the pair.                                        *)
C6_OneRowHoldingLatest ==
  /\ \A r \in attempt_answers : <<r.attempt_id, r.question_id>> \in DOMAIN lastWrite
  /\ \A key \in DOMAIN lastWrite :
       RowsFor(key[1], key[2]) =
         {AnswerRow(key[1], key[2], lastWrite[key][1], lastWrite[key][2])}

\* a second, different answer for a pair has replaced the first
C6_Witness ==
  /\ ar[1].op = "answer" /\ ar[1].pc = "done" /\ ar[1].status = 200 /\ ar[1].again
  /\ RowsFor(ar[1].attempt_id, ar[1].question_id) =
       {AnswerRow(ar[1].attempt_id, ar[1].question_id, ar[1].user_answer,
                  ar[1].is_correct)}

\* both slots hold an answered call for the same pair, and the two overlapped
Raced(s, t) ==
  /\ ar[s].op = "answer" /\ ar[s].pc = "done" /\ ar[s].status = 200 /\ ar[s].conc
  /\ ar[t].op = "answer" /\ ar[t].pc = "done" /\ ar[t].status = 200 /\ ar[t].conc
  /\ ar[s].attempt_id = ar[t].attempt_id /\ ar[s].question_id = ar[t].question_id

(* C7: after two overlapping answer calls for the same pair, the pair has  *)
(* exactly one row, and it is the row one of the two calls sent.           *)
C7_RaceLeavesOneWholeRow ==
  \A s, t \in Slots :
    s # t /\ Raced(s, t) =>
      \E w \in {s, t} :
        RowsFor(ar[s].attempt_id, ar[s].question_id) =
          {AnswerRow(ar[w].attempt_id, ar[w].question_id, ar[w].user_answer,
                     ar[w].is_correct)}

\* two overlapping calls that sent different answers have both returned
C7_Witness ==
  /\ Raced(1, 2)
  /\ ar[1].user_answer # ar[2].user_answer
  /\ ar[1].is_correct # ar[2].is_correct
  /\ Cardinality(RowsFor(ar[1].attempt_id, ar[1].question_id)) = 1

(* C8: requests one after the other: the score a finish call stores and    *)
(* returns is the number of answer rows of the attempt marked correct.     *)
C8_ScoreCountsCorrectRows ==
  ar[1].op = "finish" /\ ar[1].pc = "done" /\ ar[1].status = 200 =>
    /\ attempts[ar[1].attempt_id].score = Cardinality(CorrectRows(ar[1].attempt_id))
    /\ ar[1].score = Cardinality(CorrectRows(ar[1].attempt_id))

\* one correct and one wrong answer, finished with score 1
C8_Witness ==
  /\ ar[1].op = "finish" /\ ar[1].pc = "done" /\ ar[1].status = 200
  /\ attempts[ar[1].attempt_id].score = 1
  /\ Cardinality({r \in attempt_answers : r.attempt_id = ar[1].attempt_id}) = 2

(* C9: a finish call on an attempt that was finished before, with no       *)
(* answer call in between, stores the score the attempt already had.       *)
C9_FinishTwiceSameScore ==
  ar[1].op = "finish" /\ ar[1].pc = "done" /\ ar[1].status = 200 /\ ar[1].again =>
    attempts[ar[1].attempt_id].score = ar[1].prev

\* a second finish of an attempt with a correct answer
C9_Witness ==
  /\ ar[1].op = "finish" /\ ar[1].pc = "done" /\ ar[1].status = 200 /\ ar[1].again
  /\ attempts[ar[1].attempt_id].score >= 1

(* C20: a started attempt is stored with score 0, not finished, and with   *)
(* a total equal to the number of question rows of its quiz.               *)
C20_StartSnapshotsTotal ==
  \A s \in Slots :
    ar[s].op = "start" /\ ar[s].pc = "done" /\ ar[s].status = 200 =>
      /\ ar[s].attempt_id \in 1..Len(attempts)
      /\ attempts[ar[s].attempt_id].score = 0
      /\ ~attempts[ar[s].attempt_id].finished
      /\ attempts[ar[s].attempt_id].total =
           Cardinality(QuestionsOf(attempts[ar[s].attempt_id].quiz_id))

\* attempts started on quizzes of different sizes
C20_Witness ==
  /\ Len(attempts) = 2
  /\ attempts[1].total # attempts[2].total
  /\ \E s \in Slots : ar[s].op = "start" /\ ar[s].pc = "done" /\ ar[s].status = 200

\* ---------------------------------------------- properties of SpecLive
(* C21: a generation request that has reached a model call is eventually   *)
(* answered, with a success or an error.                                   *)
C21_EveryRequestCompletes == (req.pc \in {"call1", "call2"}) ~> (req.pc = "done")

\* ----------------------------------------- properties of SpecFinishRace
(* C26: whenever a finish call writes an attempt row, the score it writes  *)
(* is the number of answer rows of that attempt marked correct at that     *)
(* moment, answers that arrived during the finish call included.           *)
C26_FinishScoreIsCurrent ==
  [][\A a \in 1..Len(attempts) :
       attempts'[a].finished /\ ar[1].pc = "update" /\ ar'[1].status = 200
         /\ ar[1].attempt_id = a
       => attempts'[a].score = Cardinality(CorrectRows(a))]_vars

\* ------------------------------------------------- properties: language
(* C31: the language stored with every quiz, and the language of every     *)
(* generation request waiting for the model, is one of ro, en, fr, de, es, *)
(* it: an absent or unknown language input has become the default.         *)
C31_LanguageInClosedSet ==
  /\ \A q \in 1..Len(quizzes) : quizzes[q].language \in LanguageCodes
  /\ req.pc \in {"call1", "call2"} => req.language \in LanguageCodes

\* ------------------------------------------- properties: answers, scores
(* C32: every stored answer row holds the trimmed answer of the user, and  *)
(* its is_correct is true exactly when that text equals, letter case       *)
(* included, the trimmed answer of the question it names; the answer call  *)
(* returns the flag of the row it wrote.                                   *)
C32_IsCorrectIsExactTrimmedMatch ==
  /\ \A r \in attempt_answers :
       /\ r.user_answer = trim(r.user_answer)
       /\ r.is_correct <=> (r.user_answer = trim(questions[r.question_id].answer))
  /\ \A s \in Slots :
       ar[s].op = "answer" /\ ar[s].pc = "done" /\ ar[s].status = 200 =>
         \E r \in RowsFor(ar[s].attempt_id, ar[s].question_id) :
           r.user_answer = ar[s].user_answer /\ r.is_correct = ar[s].is_correct

\* a row marked correct, and a row marked wrong that differs by case only
C32_Witness ==
  \E r, w \in attempt_answers :
    /\ r.is_correct
    /\ ~w.is_correct
    /\ toLowerCase(w.user_answer) = toLowerCase(trim(questions[w.question_id].answer))

(* C33: once an attempt is finished, no answer call and no finish call     *)
(* that finds no answer newer than the last finish changes its row: score, *)
(* total and finished_at stay as the finish left them.                     *)
C33_FinishedRowIsSealed ==
  [][\A a \in 1..Len(attempts) :
       /\ attempts[a].finished
       /\ a \notin answeredSince \/ \A s \in Slots : ar[s].pc # "update"
       => attempts'[a] = attempts[a]]_vars

(* C34: no step of an answer call changes an attempt row, before or after  *)
(* the finish; the stored score of an attempt changes only in the update   *)
(* of a finish call for that attempt.                                      *)
C34_ScoreMovesOnlyInFinish ==
  [][/\ (\E s \in Slots : ar'[s].op = "answer" /\ ar'[s] # ar[s]) => attempts' = attempts
     /\ \A a \in 1..Len(attempts) :
          attempts'[a].score # attempts[a].score =>
            \E s \in Slots : /\ ar[s].op = "finish" /\ ar[s].pc = "update"
                             /\ ar[s].attempt_id = a]_vars

(* an answer stored after the finish has changed the number of correct     *)
(* rows, and the attempt still shows the score of the finish               *)
C34_Witness ==
  \E a \in 1..Len(attempts) :
    /\ attempts[a].finished /\ a \in answeredSince
    /\ \E s \in Slots : /\ ar[s].op = "answer" /\ ar[s].pc = "done" /\ ar[s].status = 200
                         /\ ar[s].attempt_id = a
    /\ attempts[a].score # Cardinality(CorrectRows(a))

(* C35: the stored score of every attempt lies between 0 and the total the *)
(* attempt took at its start, whatever ids the calls named.                *)
C35_ScoreWithinTotal ==
  \A a \in 1..Len(attempts) : attempts[a].score >= 0 /\ attempts[a].score <= attempts[a].total

(* C36: every answer row names an attempt of the store and a question of   *)
(* the quiz that attempt plays.                                            *)
C36_AnswerRowsOfOwnQuiz ==
  \A r \in attempt_answers :
    /\ r.attempt_id \in 1..Len(attempts)
    /\ r.question_id \in QuestionsOf(attempts[r.attempt_id].quiz_id)

\* ---------------------------------------- properties: failed generation
\* the ways a generation fails: the model call, the parse, the validation
GenerationErrors ==
  {"model_error", "invalid_json", "invalid_format", "count_mismatch",
   "duplicate_choices", "answer_not_in_choices", "no_valid_questions"}

(* C37: a request that has failed in the generation (model error, output   *)
(* that does not parse or does not validate, the repair included) has      *)
(* written no quiz row, and so no question row.                            *)
C37_FailedGenerationWritesNothing ==
  req.pc = "done" /\ req.status # 200 /\ req.err \in GenerationErrors => req.quiz_id = 0

\* -------------------------------------------- properties: regeneration
\* the source text the store keeps for quiz qid, in the quiz row or beside it
StoredSourceText(qid) ==
  IF ~IsBlank(quizzes[qid].source_text) THEN quizzes[qid].source_text
  ELSE SourceOf(qid).source_text

(* C38: the quiz a regeneration by p0a, p3 or s2 has created is stored     *)
(* with the source text of the quiz it was regenerated from.               *)
C38_RegenKeepsSourceText ==
  /\ req.proto \in {"p0a", "p3", "s2"}
  /\ req.route = "regen" /\ req.pc = "done" /\ req.status = 200
  /\ req.from \in 1..Len(quizzes) /\ req.quiz_id \in 1..Len(quizzes)
  => StoredSourceText(req.quiz_id) = StoredSourceText(req.from)

(* C39: a regeneration writes a quiz only for a caller whose user id is    *)
(* the owner's (a missing or another id is turned away), and the quiz it   *)
(* writes belongs to the owner of the original.                            *)
C39_OnlyOwnerRegenerates ==
  /\ req.route = "regen" /\ req.foreign => req.quiz_id = 0
  /\ req.route = "regen" /\ req.quiz_id \in 1..Len(quizzes) /\ req.from \in 1..Len(quizzes)
       => quizzes[req.quiz_id].user_id = quizzes[req.from].user_id

(* C40: a start call for a quiz id that no quiz has is turned away at the  *)
(* lookup and never gets to the insert, so no attempt row names a quiz     *)
(* that does not exist.                                                    *)
C40_StartNeedsExistingQuiz ==
  /\ \A s \in Slots :
       ar[s].op = "start" /\ ar[s].pc = "insert" => ar[s].quiz_id \in 1..Len(quizzes)
  /\ \A a \in 1..Len(attempts) : attempts[a].quiz_id \in 1..Len(quizzes)

====
